---- MODULE Spec2Model ----
(***************************************************************************)
(* Bundle Manager webhook server (web/index.ts, web/graphql.ts).           *)
(*                                                                         *)
(* Every delivery of POST /webhooks/orders/create runs one async handler.  *)
(* Node runs the handlers on one thread, so a handler only yields at an    *)
(* `await`; every await of the code is a call to the Shopify Admin API.    *)
(* pc[h] names the call handler h is awaiting; one action of the model is  *)
(* the service answering that call followed by the handler's synchronous   *)
(* code up to its next await.                                              *)
(***************************************************************************)
EXTENDS Integers, Sequences, FiniteSets

VARIABLES
    level,                  \* inventory service: available quantity per inventory item
    level0,                 \* the levels before any delivery (history)
    scenario,               \* how many deliveries arrive and how many calls may go wrong
    faults,                 \* number of calls answered by anything but a success (history)
    pc,                     \* per handler: the awaited call
    order,                  \* per handler: req.body
    hmac,                   \* per handler: the X-Shopify-Hmac-Sha256 header of the request
    lineIdx,                \* per handler: position of the for loop over order.line_items
    bundleConfig,           \* per handler: processLineItem's bundleConfig
    compIdx,                \* per handler: position of the loop over bundleConfig.products
    inventoryItemId,        \* per handler: inventoryItemId of the current component
    bundleInventoryItemId,  \* per handler: syncBundleInventory's bundleInventoryItemId
    availablePerComponent,  \* per handler: syncBundleInventory's availablePerComponent
    bundleInventory,        \* per handler: syncBundleInventory's bundleInventory
    status,                 \* per handler: HTTP status sent, 0 while none
    calls,                  \* per handler: the API calls it issued, in order (history)
    selected,               \* admin block: number of the product of data.selected[0], 0 if none
    isBundle,               \* admin block: useState isBundle
    bundleProducts,         \* admin block: useState bundleProducts
    loading,                \* admin block: useState loading
    saving,                 \* admin block: useState saving
    refreshingInventory,    \* admin block: useState refreshingInventory
    metafieldValue,         \* the custom.bundle_config metafield of the selected product
    runs,                   \* admin block: the async functions that are awaiting something
    events                  \* admin block: number of things the merchant did (history)

\* the state of the webhook server
webhookVars == <<level, level0, scenario, faults, pc, order, hmac, lineIdx, bundleConfig,
                 compIdx, inventoryItemId, bundleInventoryItemId, availablePerComponent,
                 bundleInventory, status, calls>>

\* the state of the admin block extension and of the metafield it edits
adminVars == <<selected, isBundle, bundleProducts, loading, saving, refreshingInventory,
               metafieldValue, runs, events>>

vars == <<webhookVars, adminVars>>

----------------------------------------------------------------------------
(* Bounds *)

MaxDeliveries == 2
MaxFaults == 1
MaxRuns == 2        \* async functions of the admin block in flight together
MaxEvents == 3      \* things the merchant does in one run of the admin block
MaxProducts == 3    \* length of bundleProducts

\* process.env.SHOPIFY_WEBHOOK_SECRET: '' when not set
NoSecret == ""
ShopSecret == "whsec"

Handlers == 1..MaxDeliveries
Runs == 1..MaxRuns

----------------------------------------------------------------------------
(* Optional values: null is the empty sequence *)

None == <<>>
Some(v) == <<v>>

RECURSIVE SeqSum(_)
SeqSum(s) == IF s = <<>> THEN 0 ELSE Head(s) + SeqSum(Tail(s))

----------------------------------------------------------------------------
(* The shop: products, metafields, inventory items *)

PX == 1
PY == 2
PKit == 3
PKit2 == 4
PPlain == 5
PFlagOff == 6
PNoProducts == 7
PEmpty == 8
PBadJson == 9
PZeroQty == 10

ProductNumbers ==
    {PX, PY, PKit, PKit2, PPlain, PFlagOff, PNoProducts, PEmpty, PBadJson, PZeroQty}

\* `gid://shopify/Product/${lineItem.product_id}`
ProductGid(n) == <<"gid://shopify/Product", n>>

\* the inventory item of the product's first variant
VariantInventoryItem(productId) == <<"gid://shopify/InventoryItem", productId[2]>>

InventoryItems == {VariantInventoryItem(ProductGid(n)) : n \in ProductNumbers}

SHOPIFY_LOCATION_ID == "gid://shopify/Location/1"

\* custom.bundle_config metafield of a product: None, or the stored JSON text
Metafield(productId) ==
    CASE productId = ProductGid(PKit) ->
           Some([parses |-> TRUE,
                 json |-> [isBundle |-> TRUE,
                           products |-> << [productId |-> ProductGid(PX), quantity |-> 2],
                                           [productId |-> ProductGid(PY), quantity |-> 1] >>]])
      [] productId = ProductGid(PKit2) ->
           Some([parses |-> TRUE,
                 json |-> [isBundle |-> TRUE,
                           products |-> << [productId |-> ProductGid(PX), quantity |-> 3] >>]])
      [] productId = ProductGid(PFlagOff) ->
           Some([parses |-> TRUE,
                 json |-> [isBundle |-> FALSE,
                           products |-> << [productId |-> ProductGid(PX), quantity |-> 1] >>]])
      [] productId = ProductGid(PNoProducts) ->
           Some([parses |-> TRUE, json |-> [isBundle |-> TRUE]])
      [] productId = ProductGid(PEmpty) ->
           Some([parses |-> TRUE, json |-> [isBundle |-> TRUE, products |-> <<>>]])
      [] productId = ProductGid(PBadJson) ->
           \* a truncated text; json is what it was cut from
           Some([parses |-> FALSE,
                 json |-> [isBundle |-> TRUE,
                           products |-> << [productId |-> ProductGid(PY), quantity |-> 1] >>]])
      [] productId = ProductGid(PZeroQty) ->
           Some([parses |-> TRUE,
                 json |-> [isBundle |-> TRUE,
                           products |-> << [productId |-> ProductGid(PY), quantity |-> 0] >>]])
      [] OTHER -> None

\* the deliveries the webhook may receive: req.body
Order1 == [id |-> 1001, line_items |-> << [id |-> 11, product_id |-> PKit, quantity |-> 1] >>]
Order2 == [id |-> 1002, line_items |-> << [id |-> 21, product_id |-> PKit, quantity |-> 1] >>]
Order3 == [id |-> 1003, line_items |-> << [id |-> 31, product_id |-> PPlain, quantity |-> 1],
                                          [id |-> 32, product_id |-> PKit2, quantity |-> 2] >>]

Order4 == [id |-> 1004, line_items |-> << [id |-> 41, product_id |-> PBadJson, quantity |-> 1],
                                          [id |-> 42, product_id |-> PFlagOff, quantity |-> 1],
                                          [id |-> 43, product_id |-> PNoProducts, quantity |-> 1],
                                          [id |-> 44, product_id |-> PEmpty, quantity |-> 1] >>]

\* a body without line_items; the empty list stands in for the absent field
Order5 == [id |-> 1005, line_items |-> <<>>, line_items_undefined |-> TRUE]

\* two line items that sell the same bundle
Order6 == [id |-> 1006, line_items |-> << [id |-> 61, product_id |-> PKit, quantity |-> 1],
                                          [id |-> 62, product_id |-> PKit, quantity |-> 1] >>]

\* a bundle whose stored config gives its component the quantity 0
Order7 == [id |-> 1007, line_items |-> << [id |-> 71, product_id |-> PZeroQty, quantity |-> 1] >>]

\* more bundles than the component stock covers
Order8 == [id |-> 1008, line_items |-> << [id |-> 81, product_id |-> PKit, quantity |-> 4] >>]

Orders == {Order1, Order2, Order3, Order4, Order5, Order6, Order7, Order8}

NoOrder == [id |-> 0, line_items |-> <<>>]

\* A run has concurrent sales of Kit whose calls all succeed, or one delivery of any
\* body with faulty calls, or two deliveries of bundle orders and at most one faulty
\* call; the webhook secret is set in runs of one delivery whose calls succeed.
Scenarios ==
    { [deliveries |-> MaxDeliveries, faults |-> 0, secret |-> NoSecret,
       orders |-> {Order1, Order2}],
      [deliveries |-> 1, faults |-> MaxFaults, secret |-> NoSecret, orders |-> Orders],
      [deliveries |-> 2, faults |-> 1, secret |-> NoSecret,
       orders |-> {Order1, Order2, Order3}],
      [deliveries |-> 1, faults |-> 0, secret |-> ShopSecret, orders |-> Orders] }

----------------------------------------------------------------------------
(* ShopifyGraphQL: what each client method returns for an answer of the    *)
(* service.  Answers of query():                                           *)
(*   "ok"         the service executed the request and its answer arrived  *)
(*   "error"      fetch rejected or the status was not OK; not executed    *)
(*   "lost"       executed, but the answer never arrived: fetch rejected   *)
(*   "userErrors" a mutation refused with userErrors; not executed         *)
(*   "nodata"     HTTP OK with top-level errors and no data; not executed  *)
(***************************************************************************)

ReadAnswers == {"ok", "error"}
MutationAnswers == {"ok", "error", "lost", "userErrors", "nodata"}

\* query(): throws unless the answer is a parsed JSON body
QueryThrows(answer) == answer \in {"error", "lost"}

\* the service executed the mutation
Executed(answer) == answer \in {"ok", "lost"}

\* a parser that makes do with whatever it could read of a broken text
JSONParseThrows_Lenient(text) == FALSE

\* JSON.parse(metafield.value)
JSONParseThrows(text) == ~text.parses
JSONParse(text) == text.json

\* a client that takes a product without metafield for a bundle of itself
getBundleConfig_SelfBundle(productId, answer) ==
    IF QueryThrows(answer) THEN None
    ELSE IF Metafield(productId) = None
    THEN Some([isBundle |-> TRUE, products |-> <<[productId |-> productId, quantity |-> 1]>>])
    ELSE IF JSONParseThrows(Metafield(productId)[1]) THEN None
    ELSE Some(JSONParse(Metafield(productId)[1]))

getBundleConfig(productId, answer) ==
    IF QueryThrows(answer) THEN None
    ELSE IF Metafield(productId) = None THEN None
    ELSE IF JSONParseThrows(Metafield(productId)[1]) THEN None
    ELSE Some(JSONParse(Metafield(productId)[1]))

getInventoryItemId(productId, answer) ==
    IF QueryThrows(answer) THEN None
    ELSE IF productId[2] \in ProductNumbers THEN Some(VariantInventoryItem(productId))
    ELSE None

\* a client that answers from the levels it saw when the server started
getInventoryLevel_Cached(itemId, locationId, answer) ==
    IF QueryThrows(answer) THEN None
    ELSE IF itemId \in InventoryItems /\ locationId = SHOPIFY_LOCATION_ID THEN Some(level0[itemId])
    ELSE None

getInventoryLevel(itemId, locationId, answer) ==
    IF QueryThrows(answer) THEN None
    ELSE IF itemId \in InventoryItems /\ locationId = SHOPIFY_LOCATION_ID THEN Some(level[itemId])
    ELSE None

setInventory(answer) ==
    IF QueryThrows(answer) THEN FALSE
    ELSE IF answer = "userErrors" THEN FALSE
    ELSE TRUE

adjustInventory(answer) ==
    IF QueryThrows(answer) THEN FALSE
    ELSE IF answer = "userErrors" THEN FALSE
    ELSE TRUE

----------------------------------------------------------------------------
(* Pure parts of index.ts *)

\* crypto.createHmac('sha256', secret).update(buf).digest('base64')
HmacSha256(secret, buf) == <<"hmac-sha256", secret, buf.id>>

\* the X-Shopify-Hmac-Sha256 headers a request with body o may carry: none, the digest
\* under the shop's secret, a digest under another secret
Headers(o) == {None, Some(HmacSha256(ShopSecret, o)), Some(HmacSha256("guess", o))}

\* verifyWebhook throws 'Invalid webhook signature'
verifyWebhookThrows(secret, header, buf) ==
    IF header = None THEN FALSE
    ELSE HmacSha256(secret, buf) # header[1]

\* express.json({ verify }): the request is refused before the handler runs
VerifyRejects(secret, header, buf) ==
    IF secret # NoSecret THEN verifyWebhookThrows(secret, header, buf) ELSE FALSE

\* the handler's try block throws before the loop: order.line_items.length of undefined
HandlerThrows(o) == "line_items_undefined" \in DOMAIN o

\* a guard that looks at the flag only
NotMarkedAsBundle_FlagOnly(config) == ~config.isBundle

\* if (!bundleConfig.isBundle || !bundleConfig.products || bundleConfig.products.length === 0)
NotMarkedAsBundle(config) ==
    \/ ~config.isBundle
    \/ "products" \notin DOMAIN config
    \/ Len(config.products) = 0

\* slips of the delta: the sign dropped, the ordered quantity forgotten
Delta_SignDropped(bundleProduct, lineItem) == bundleProduct.quantity * lineItem.quantity
Delta_OrderQuantityForgotten(bundleProduct, lineItem) == (-1) * bundleProduct.quantity

\* const delta = -1 * (bundleProduct.quantity * lineItem.quantity)
Delta(bundleProduct, lineItem) == (-1) * (bundleProduct.quantity * lineItem.quantity)

\* slip: the level taken as the number of bundles, without the division
BundlesAvailable_Undivided(currentLevel, component) == currentLevel

\* the numbers of JavaScript that are no integers: Infinity lies above and -Infinity
\* below every level, NaN is what 0 / 0 gives
Infinity == 1000000
NaN == 0 - 2000000
Finite(n) == n \notin {Infinity, 0 - Infinity, NaN}

\* Math.floor(currentLevel / component.quantity); the quantities stored are >= 0
BundlesAvailable(currentLevel, component) ==
    IF component.quantity # 0 THEN currentLevel \div component.quantity
    ELSE IF currentLevel > 0 THEN Infinity
    ELSE IF currentLevel < 0 THEN 0 - Infinity
    ELSE NaN

\* slip: the first component's figure instead of the minimum
MathMin_First(s) == s[1]

\* Math.min(...availablePerComponent), availablePerComponent not empty
MathMin(s) ==
    IF \E i \in DOMAIN s : s[i] = NaN THEN NaN
    ELSE CHOOSE m \in {s[i] : i \in DOMAIN s} : \A i \in DOMAIN s : m <= s[i]

----------------------------------------------------------------------------
(* Initial state *)

\* min over the components of floor(level / quantity), for levels lv
ScarcestComponent(config, lv) ==
    LET per(i) == lv[VariantInventoryItem(config.products[i].productId)]
                      \div config.products[i].quantity
        n == CHOOSE m \in DOMAIN config.products :
                 \A i \in DOMAIN config.products : per(m) <= per(i)
    IN  per(n)

\* the products whose metafield holds a bundle with components
Bundles ==
    {n \in ProductNumbers :
        /\ Metafield(ProductGid(n)) # None
        /\ Metafield(ProductGid(n))[1].parses
        /\ Metafield(ProductGid(n))[1].json.isBundle
        /\ "products" \in DOMAIN Metafield(ProductGid(n))[1].json
        /\ Metafield(ProductGid(n))[1].json.products # <<>>}

ConfigOf(n) == Metafield(ProductGid(n))[1].json

\* the bundles whose components all have a quantity of at least 1
ValidBundles ==
    {n \in Bundles : \A i \in DOMAIN ConfigOf(n).products : ConfigOf(n).products[i].quantity >= 1}

\* stock of the component products before any delivery
ComponentStock ==
    { [x |-> 10, y |-> 3], [x |-> 7, y |-> 5] }

InitialLevels(stock) ==
    LET base == [it \in InventoryItems |->
                    CASE it = VariantInventoryItem(ProductGid(PX)) -> stock.x
                      [] it = VariantInventoryItem(ProductGid(PY)) -> stock.y
                      [] OTHER -> 5]
    IN  [it \in InventoryItems |->
            IF it[2] \in ValidBundles THEN ScarcestComponent(ConfigOf(it[2]), base)
            ELSE base[it]]

\* runs with several deliveries start from the first stock, runs with one from either
ScenarioStock(sc) ==
    IF sc.deliveries > 1 THEN {[x |-> 10, y |-> 3]} ELSE ComponentStock

\* no run of the admin block is awaiting anything
NoRun == [op |-> "none", pc |-> "none", products |-> <<>>, isBundle |-> FALSE,
          edited |-> FALSE]

\* the admin block is not on any page: its state is what useState constructs
BlockNotRendered ==
    /\ selected = 0
    /\ isBundle = FALSE
    /\ bundleProducts = <<>>
    /\ loading = TRUE
    /\ saving = FALSE
    /\ refreshingInventory = FALSE
    /\ metafieldValue = None
    /\ runs = [r \in Runs |-> NoRun]
    /\ events = 0

\* no delivery has arrived
HandlersIdle ==
    /\ level0 = level
    /\ faults = 0
    /\ pc = [h \in Handlers |-> "idle"]
    /\ order = [h \in Handlers |-> NoOrder]
    /\ hmac = [h \in Handlers |-> None]
    /\ lineIdx = [h \in Handlers |-> 0]
    /\ bundleConfig = [h \in Handlers |-> None]
    /\ compIdx = [h \in Handlers |-> 0]
    /\ inventoryItemId = [h \in Handlers |-> None]
    /\ bundleInventoryItemId = [h \in Handlers |-> None]
    /\ availablePerComponent = [h \in Handlers |-> <<>>]
    /\ bundleInventory = [h \in Handlers |-> 0]
    /\ status = [h \in Handlers |-> 0]
    /\ calls = [h \in Handlers |-> <<>>]

Init ==
    /\ scenario \in Scenarios
    /\ \E stock \in ScenarioStock(scenario) : level = InitialLevels(stock)
    /\ HandlersIdle
    /\ BlockNotRendered

----------------------------------------------------------------------------
(* Handler steps *)

lineItem(h) == order[h].line_items[lineIdx[h]]
productId(h) == ProductGid(lineItem(h).product_id)
products(h) == bundleConfig[h][1].products
component(h) == products(h)[compIdx[h]]

\* an answer other than "ok" is a fault; at most scenario.faults of them
Answer(answers, a) == a \in answers /\ (a # "ok" => faults < scenario.faults)
CountFault(a) == faults' = IF a = "ok" THEN faults ELSE faults + 1

Call(h, fn, op, arg, loc, val, a, ret) ==
    calls' = [calls EXCEPT ![h] = Append(@,
                [fn |-> fn, op |-> op, line |-> lineIdx[h], arg |-> arg, loc |-> loc,
                 val |-> val, answer |-> a, ret |-> ret])]

\* a handler whose catch is reached by the exceptions of the calls it made
LineItemDone_FailureReported(h) ==
    /\ lineIdx' = [lineIdx EXCEPT ![h] = @ + 1]
    /\ IF lineIdx[h] + 1 > Len(order[h].line_items)
       THEN /\ pc' = [pc EXCEPT ![h] = "done"]
            /\ status' = [status EXCEPT ![h] =
                              IF \E k \in DOMAIN calls'[h] : QueryThrows(calls'[h][k].answer)
                              THEN 500 ELSE 200]
       ELSE pc' = [pc EXCEPT ![h] = "getBundleConfig"] /\ UNCHANGED status
    /\ bundleConfig' = [bundleConfig EXCEPT ![h] = None]
    /\ compIdx' = [compIdx EXCEPT ![h] = 0]
    /\ inventoryItemId' = [inventoryItemId EXCEPT ![h] = None]
    /\ bundleInventoryItemId' = [bundleInventoryItemId EXCEPT ![h] = None]
    /\ availablePerComponent' = [availablePerComponent EXCEPT ![h] = <<>>]
    /\ bundleInventory' = [bundleInventory EXCEPT ![h] = 0]

\* a handler that answers 200 as soon as its first line item is processed
LineItemDone_RespondAfterFirst(h) ==
    /\ lineIdx' = [lineIdx EXCEPT ![h] = @ + 1]
    /\ status' = [status EXCEPT ![h] = 200]
    /\ IF lineIdx[h] + 1 > Len(order[h].line_items)
       THEN pc' = [pc EXCEPT ![h] = "done"]
       ELSE pc' = [pc EXCEPT ![h] = "getBundleConfig"]
    /\ bundleConfig' = [bundleConfig EXCEPT ![h] = None]
    /\ compIdx' = [compIdx EXCEPT ![h] = 0]
    /\ inventoryItemId' = [inventoryItemId EXCEPT ![h] = None]
    /\ bundleInventoryItemId' = [bundleInventoryItemId EXCEPT ![h] = None]
    /\ availablePerComponent' = [availablePerComponent EXCEPT ![h] = <<>>]
    /\ bundleInventory' = [bundleInventory EXCEPT ![h] = 0]

\* processLineItem returned: the for loop of the handler goes on, then res.status(200)
LineItemDone(h) ==
    /\ lineIdx' = [lineIdx EXCEPT ![h] = @ + 1]
    /\ IF lineIdx[h] + 1 > Len(order[h].line_items)
       THEN pc' = [pc EXCEPT ![h] = "done"] /\ status' = [status EXCEPT ![h] = 200]
       ELSE pc' = [pc EXCEPT ![h] = "getBundleConfig"] /\ UNCHANGED status
    /\ bundleConfig' = [bundleConfig EXCEPT ![h] = None]
    /\ compIdx' = [compIdx EXCEPT ![h] = 0]
    /\ inventoryItemId' = [inventoryItemId EXCEPT ![h] = None]
    /\ bundleInventoryItemId' = [bundleInventoryItemId EXCEPT ![h] = None]
    /\ availablePerComponent' = [availablePerComponent EXCEPT ![h] = <<>>]
    /\ bundleInventory' = [bundleInventory EXCEPT ![h] = 0]

\* app.post('/webhooks/orders/create'): a delivery arrives; deliveries take the handlers
\* in order. A request whose signature is refused gets 403 from express.json and never
\* reaches the handler; a body without line_items makes the handler answer 500
Receive(h, o, header) ==
    /\ UNCHANGED adminVars
    /\ pc[h] = "idle"
    /\ h <= scenario.deliveries
    /\ h > 1 => pc[h - 1] # "idle"
    /\ o \in scenario.orders
    /\ header \in Headers(o)
    /\ scenario.secret = NoSecret => header = None
    /\ hmac' = [hmac EXCEPT ![h] = header]
    /\ IF VerifyRejects(scenario.secret, header, o)
       THEN /\ pc' = [pc EXCEPT ![h] = "done"]
            /\ status' = [status EXCEPT ![h] = 403]
            /\ UNCHANGED <<order, lineIdx>>
       ELSE IF HandlerThrows(o)
       THEN /\ order' = [order EXCEPT ![h] = o]
            /\ pc' = [pc EXCEPT ![h] = "done"]
            /\ status' = [status EXCEPT ![h] = 500]
            /\ UNCHANGED lineIdx
       ELSE /\ order' = [order EXCEPT ![h] = o]
            /\ lineIdx' = [lineIdx EXCEPT ![h] = 1]
            /\ IF Len(o.line_items) = 0
               THEN pc' = [pc EXCEPT ![h] = "done"] /\ status' = [status EXCEPT ![h] = 200]
               ELSE pc' = [pc EXCEPT ![h] = "getBundleConfig"] /\ UNCHANGED status
    /\ UNCHANGED <<level, level0, scenario, faults, bundleConfig, compIdx, inventoryItemId,
                   bundleInventoryItemId, availablePerComponent, bundleInventory, calls>>

\* a loop that stops at the first component whose adjustment failed
NextComponent_BreakOnFailure(h) ==
    /\ inventoryItemId' = [inventoryItemId EXCEPT ![h] = None]
    /\ IF \/ compIdx[h] + 1 > Len(products(h))
          \/ pc[h] = "adjustInventory" /\ ~calls'[h][Len(calls'[h])].ret
       THEN /\ pc' = [pc EXCEPT ![h] = "sync.getInventoryItemId(bundle)"]
            /\ compIdx' = [compIdx EXCEPT ![h] = 0]
       ELSE /\ pc' = [pc EXCEPT ![h] = "getInventoryItemId"]
            /\ compIdx' = [compIdx EXCEPT ![h] = @ + 1]

\* a loop that leaves (break) instead of going on (continue) at an unresolved component
NextComponent_BreakOnUnresolved(h) ==
    /\ inventoryItemId' = [inventoryItemId EXCEPT ![h] = None]
    /\ IF compIdx[h] + 1 > Len(products(h)) \/ pc[h] = "getInventoryItemId"
       THEN /\ pc' = [pc EXCEPT ![h] = "sync.getInventoryItemId(bundle)"]
            /\ compIdx' = [compIdx EXCEPT ![h] = 0]
       ELSE /\ pc' = [pc EXCEPT ![h] = "getInventoryItemId"]
            /\ compIdx' = [compIdx EXCEPT ![h] = @ + 1]

\* a loop that sends the delta again when the adjustment came back false
NextComponent_RetryFailed(h) ==
    IF pc[h] = "adjustInventory" /\ ~calls'[h][Len(calls'[h])].ret
    THEN UNCHANGED <<pc, compIdx, inventoryItemId>>
    ELSE /\ inventoryItemId' = [inventoryItemId EXCEPT ![h] = None]
         /\ IF compIdx[h] + 1 > Len(products(h))
            THEN /\ pc' = [pc EXCEPT ![h] = "sync.getInventoryItemId(bundle)"]
                 /\ compIdx' = [compIdx EXCEPT ![h] = 0]
            ELSE /\ pc' = [pc EXCEPT ![h] = "getInventoryItemId"]
                 /\ compIdx' = [compIdx EXCEPT ![h] = @ + 1]

\* the component loop of processLineItem moves to the next product, or on to syncBundleInventory
NextComponent(h) ==
    /\ inventoryItemId' = [inventoryItemId EXCEPT ![h] = None]
    /\ IF compIdx[h] + 1 > Len(products(h))
       THEN /\ pc' = [pc EXCEPT ![h] = "sync.getInventoryItemId(bundle)"]
            /\ compIdx' = [compIdx EXCEPT ![h] = 0]
       ELSE /\ pc' = [pc EXCEPT ![h] = "getInventoryItemId"]
            /\ compIdx' = [compIdx EXCEPT ![h] = @ + 1]

\* processLineItem: const bundleConfig = await client.getBundleConfig(productId)
GetBundleConfig(h) ==
    /\ UNCHANGED adminVars
    /\ pc[h] = "getBundleConfig"
    /\ \E a \in ReadAnswers :
        /\ Answer(ReadAnswers, a)
        /\ CountFault(a)
        /\ LET cfg == getBundleConfig(productId(h), a) IN
            /\ Call(h, "processLineItem", "getBundleConfig", productId(h), "", 0, a, cfg # None)
            /\ IF cfg = None
               THEN LineItemDone(h)
               ELSE IF NotMarkedAsBundle(cfg[1])
               THEN LineItemDone(h)
               ELSE IF "products" \notin DOMAIN cfg[1]
               THEN LineItemDone(h)     \* for...of undefined throws; caught at the end
               ELSE /\ bundleConfig' = [bundleConfig EXCEPT ![h] = cfg]
                    /\ IF Len(cfg[1].products) = 0
                       THEN /\ compIdx' = [compIdx EXCEPT ![h] = 0]
                            /\ pc' = [pc EXCEPT ![h] = "sync.getInventoryItemId(bundle)"]
                       ELSE /\ compIdx' = [compIdx EXCEPT ![h] = 1]
                            /\ pc' = [pc EXCEPT ![h] = "getInventoryItemId"]
                    /\ UNCHANGED <<lineIdx, status, inventoryItemId, bundleInventoryItemId,
                                   availablePerComponent, bundleInventory>>
    /\ UNCHANGED <<level, level0, scenario, hmac, order>>

\* processLineItem: const inventoryItemId = await client.getInventoryItemId(bundleProduct.productId)
GetComponentItem(h) ==
    /\ UNCHANGED adminVars
    /\ pc[h] = "getInventoryItemId"
    /\ \E a \in ReadAnswers :
        /\ Answer(ReadAnswers, a)
        /\ CountFault(a)
        /\ LET id == getInventoryItemId(component(h).productId, a) IN
            /\ Call(h, "processLineItem", "getInventoryItemId", component(h).productId, "", 0, a,
                    id # None)
            /\ IF id = None
               THEN NextComponent(h)
               ELSE /\ inventoryItemId' = [inventoryItemId EXCEPT ![h] = id]
                    /\ pc' = [pc EXCEPT ![h] = "adjustInventory"]
                    /\ UNCHANGED compIdx
    /\ UNCHANGED <<level, level0, scenario, hmac, order, lineIdx, bundleConfig, bundleInventoryItemId,
                   availablePerComponent, bundleInventory, status>>

\* processLineItem: const success = await client.adjustInventory(inventoryItemId, SHOPIFY_LOCATION_ID, delta)
AdjustInventory(h) ==
    /\ UNCHANGED adminVars
    /\ pc[h] = "adjustInventory"
    /\ \E a \in MutationAnswers :
        /\ Answer(MutationAnswers, a)
        /\ CountFault(a)
        /\ LET delta == Delta(component(h), lineItem(h))
               itemId == inventoryItemId[h][1]
           IN  /\ level' = IF Executed(a) THEN [level EXCEPT ![itemId] = @ + delta] ELSE level
               /\ Call(h, "processLineItem", "adjustInventory", itemId, SHOPIFY_LOCATION_ID, delta, a,
                       adjustInventory(a))
    /\ NextComponent(h)
    /\ UNCHANGED <<level0, scenario, hmac, order, lineIdx, bundleConfig, bundleInventoryItemId,
                   availablePerComponent, bundleInventory, status>>

\* a recomputation that sets the bundle as soon as one component gave a level
SyncNextComponent_SetAfterFirstRead(h, available) ==
    /\ inventoryItemId' = [inventoryItemId EXCEPT ![h] = None]
    /\ IF Len(available) = 0 /\ compIdx[h] + 1 <= Len(products(h))
       THEN /\ pc' = [pc EXCEPT ![h] = "sync.getInventoryItemId"]
            /\ compIdx' = [compIdx EXCEPT ![h] = @ + 1]
            /\ availablePerComponent' = [availablePerComponent EXCEPT ![h] = available]
            /\ UNCHANGED <<lineIdx, status, bundleConfig, bundleInventoryItemId, bundleInventory>>
       ELSE IF Len(available) = 0
       THEN LineItemDone(h)
       ELSE /\ pc' = [pc EXCEPT ![h] = "setInventory"]
            /\ bundleInventory' = [bundleInventory EXCEPT ![h] = MathMin(available)]
            /\ availablePerComponent' = [availablePerComponent EXCEPT ![h] = available]
            /\ UNCHANGED <<lineIdx, status, bundleConfig, bundleInventoryItemId, compIdx>>

\* a recomputation that takes a bundle without any component level for sold out
SyncNextComponent_ZeroWhenEmpty(h, available) ==
    /\ inventoryItemId' = [inventoryItemId EXCEPT ![h] = None]
    /\ IF compIdx[h] + 1 <= Len(products(h))
       THEN /\ pc' = [pc EXCEPT ![h] = "sync.getInventoryItemId"]
            /\ compIdx' = [compIdx EXCEPT ![h] = @ + 1]
            /\ availablePerComponent' = [availablePerComponent EXCEPT ![h] = available]
            /\ UNCHANGED <<lineIdx, status, bundleConfig, bundleInventoryItemId, bundleInventory>>
       ELSE /\ pc' = [pc EXCEPT ![h] = "setInventory"]
            /\ bundleInventory' = [bundleInventory EXCEPT ![h] =
                                      IF Len(available) = 0 THEN 0 ELSE MathMin(available)]
            /\ availablePerComponent' = [availablePerComponent EXCEPT ![h] = available]
            /\ UNCHANGED <<lineIdx, status, bundleConfig, bundleInventoryItemId, compIdx>>

\* the component loop of syncBundleInventory moves on; after the last component the
\* minimum is taken and set, unless no component gave a level
SyncNextComponent(h, available) ==
    /\ inventoryItemId' = [inventoryItemId EXCEPT ![h] = None]
    /\ IF compIdx[h] + 1 <= Len(products(h))
       THEN /\ pc' = [pc EXCEPT ![h] = "sync.getInventoryItemId"]
            /\ compIdx' = [compIdx EXCEPT ![h] = @ + 1]
            /\ availablePerComponent' = [availablePerComponent EXCEPT ![h] = available]
            /\ UNCHANGED <<lineIdx, status, bundleConfig, bundleInventoryItemId, bundleInventory>>
       ELSE IF Len(available) = 0
       THEN LineItemDone(h)
       ELSE /\ pc' = [pc EXCEPT ![h] = "setInventory"]
            /\ bundleInventory' = [bundleInventory EXCEPT ![h] = MathMin(available)]
            /\ availablePerComponent' = [availablePerComponent EXCEPT ![h] = available]
            /\ UNCHANGED <<lineIdx, status, bundleConfig, bundleInventoryItemId, compIdx>>

\* syncBundleInventory: const bundleInventoryItemId = await client.getInventoryItemId(bundleProductId)
SyncGetBundleItem(h) ==
    /\ UNCHANGED adminVars
    /\ pc[h] = "sync.getInventoryItemId(bundle)"
    /\ \E a \in ReadAnswers :
        /\ Answer(ReadAnswers, a)
        /\ CountFault(a)
        /\ LET id == getInventoryItemId(productId(h), a) IN
            /\ Call(h, "syncBundleInventory", "getInventoryItemId", productId(h), "", 0, a,
                    id # None)
            /\ IF id = None
               THEN LineItemDone(h)
               ELSE IF Len(products(h)) = 0
               THEN LineItemDone(h)     \* no component: availablePerComponent stays empty
               ELSE /\ bundleInventoryItemId' = [bundleInventoryItemId EXCEPT ![h] = id]
                    /\ availablePerComponent' = [availablePerComponent EXCEPT ![h] = <<>>]
                    /\ compIdx' = [compIdx EXCEPT ![h] = 1]
                    /\ pc' = [pc EXCEPT ![h] = "sync.getInventoryItemId"]
                    /\ UNCHANGED <<lineIdx, status, bundleConfig, inventoryItemId,
                                   bundleInventory>>
    /\ UNCHANGED <<level, level0, scenario, hmac, order>>

\* syncBundleInventory: const inventoryItemId = await client.getInventoryItemId(component.productId)
SyncGetComponentItem(h) ==
    /\ UNCHANGED adminVars
    /\ pc[h] = "sync.getInventoryItemId"
    /\ \E a \in ReadAnswers :
        /\ Answer(ReadAnswers, a)
        /\ CountFault(a)
        /\ LET id == getInventoryItemId(component(h).productId, a) IN
            /\ Call(h, "syncBundleInventory", "getInventoryItemId", component(h).productId, "",
                    0, a, id # None)
            /\ IF id = None
               THEN SyncNextComponent(h, availablePerComponent[h])
               ELSE /\ inventoryItemId' = [inventoryItemId EXCEPT ![h] = id]
                    /\ pc' = [pc EXCEPT ![h] = "getInventoryLevel"]
                    /\ UNCHANGED <<lineIdx, status, bundleConfig, compIdx,
                                   bundleInventoryItemId, availablePerComponent,
                                   bundleInventory>>
    /\ UNCHANGED <<level, level0, scenario, hmac, order>>

\* syncBundleInventory: const currentLevel = await client.getInventoryLevel(inventoryItemId, SHOPIFY_LOCATION_ID)
SyncGetLevel(h) ==
    /\ UNCHANGED adminVars
    /\ pc[h] = "getInventoryLevel"
    /\ \E a \in ReadAnswers :
        /\ Answer(ReadAnswers, a)
        /\ CountFault(a)
        /\ LET currentLevel == getInventoryLevel(inventoryItemId[h][1], SHOPIFY_LOCATION_ID, a) IN
            /\ Call(h, "syncBundleInventory", "getInventoryLevel", inventoryItemId[h][1],
                    SHOPIFY_LOCATION_ID, IF currentLevel = None THEN 0 ELSE currentLevel[1], a,
                    currentLevel # None)
            /\ IF currentLevel = None
               THEN SyncNextComponent(h, availablePerComponent[h])
               ELSE SyncNextComponent(h, Append(availablePerComponent[h],
                                                BundlesAvailable(currentLevel[1], component(h))))
    /\ UNCHANGED <<level, level0, scenario, hmac, order>>

\* a sync that writes its result as a change of the bundle's level
SetInventory_AsDelta(h) ==
    /\ UNCHANGED adminVars
    /\ pc[h] = "setInventory"
    /\ \E a \in MutationAnswers :
        /\ Answer(MutationAnswers, a)
        /\ CountFault(a)
        /\ level' = IF Executed(a) /\ Finite(bundleInventory[h])
                    THEN [level EXCEPT ![bundleInventoryItemId[h][1]] = @ + bundleInventory[h]]
                    ELSE level
        /\ Call(h, "syncBundleInventory", "setInventory", bundleInventoryItemId[h][1],
                SHOPIFY_LOCATION_ID, bundleInventory[h], a, setInventory(a))
    /\ LineItemDone(h)
    /\ UNCHANGED <<level0, scenario, hmac, order>>

\* syncBundleInventory: const success = await client.setInventory(bundleInventoryItemId, SHOPIFY_LOCATION_ID, bundleInventory)
\* JSON.stringify writes a quantity that is not finite as null, which no service
\* executes as an Int
SetInventory(h) ==
    /\ UNCHANGED adminVars
    /\ pc[h] = "setInventory"
    /\ \E a \in MutationAnswers :
        /\ Answer(MutationAnswers, a)
        /\ CountFault(a)
        /\ level' = IF Executed(a) /\ Finite(bundleInventory[h])
                    THEN [level EXCEPT ![bundleInventoryItemId[h][1]] = bundleInventory[h]]
                    ELSE level
        /\ Call(h, "syncBundleInventory", "setInventory", bundleInventoryItemId[h][1],
                SHOPIFY_LOCATION_ID, bundleInventory[h], a, setInventory(a))
    /\ LineItemDone(h)
    /\ UNCHANGED <<level0, scenario, hmac, order>>

Next ==
    \/ \E h \in Handlers, o \in Orders : \E header \in Headers(o) : Receive(h, o, header)
    \/ \E h \in Handlers : GetBundleConfig(h)
    \/ \E h \in Handlers : GetComponentItem(h)
    \/ \E h \in Handlers : AdjustInventory(h)
    \/ \E h \in Handlers : SyncGetBundleItem(h)
    \/ \E h \in Handlers : SyncGetComponentItem(h)
    \/ \E h \in Handlers : SyncGetLevel(h)
    \/ \E h \in Handlers : SetInventory(h)

Spec == Init /\ [][Next]_vars

----------------------------------------------------------------------------
(* Calls the service never answers *)

\* the awaits of a handler
CallLabels ==
    {"getBundleConfig", "getInventoryItemId", "adjustInventory",
     "sync.getInventoryItemId(bundle)", "sync.getInventoryItemId", "getInventoryLevel",
     "setInventory"}

\* query() awaits fetch() without a timeout or an abort signal: a request that gets no
\* answer leaves the handler at its await. The service may have executed a mutation.
NeverAnswers(h) ==
    /\ UNCHANGED adminVars
    /\ pc[h] \in CallLabels
    /\ faults < scenario.faults
    /\ faults' = faults + 1
    /\ pc' = [pc EXCEPT ![h] = "unanswered"]
    /\ \E executed \in BOOLEAN :
          level' = IF executed /\ pc[h] = "adjustInventory"
                   THEN [level EXCEPT ![inventoryItemId[h][1]] =
                                          @ + Delta(component(h), lineItem(h))]
                   ELSE IF executed /\ pc[h] = "setInventory" /\ Finite(bundleInventory[h])
                   THEN [level EXCEPT ![bundleInventoryItemId[h][1]] = bundleInventory[h]]
                   ELSE level
    /\ UNCHANGED <<level0, scenario, order, hmac, lineIdx, bundleConfig, compIdx,
                   inventoryItemId, bundleInventoryItemId, availablePerComponent,
                   bundleInventory, status, calls>>

\* the continuations of handler h: each runs once the awaited promise has settled
HandlerStep(h) ==
    \/ GetBundleConfig(h)
    \/ GetComponentItem(h)
    \/ AdjustInventory(h)
    \/ SyncGetBundleItem(h)
    \/ SyncGetComponentItem(h)
    \/ SyncGetLevel(h)
    \/ SetInventory(h)

NextUnanswered ==
    \/ Next
    \/ \E h \in Handlers : NeverAnswers(h)

\* the event loop runs every continuation whose call was answered
SpecUnanswered ==
    Init /\ [][NextUnanswered]_vars /\ \A h \in Handlers : WF_vars(HandlerStep(h))

----------------------------------------------------------------------------
(* The admin block extension (BundleManagerBlock).  A handler of the block  *)
(* runs to its first await when the merchant acts; a run of `runs` is an    *)
(* async function that awaits the resource picker or a query, and keeps the *)
(* bundleProducts (and isBundle) of the render whose handler started it.    *)

\* the products a block is rendered for, with the metafield of the shop above
AdminProducts == {PKit, PPlain, PBadJson, PNoProducts}

\* a BundleProduct of the block's state; a field that is undefined holds None
BundleProduct(id, quantity) ==
    [productId |-> id, quantity |-> quantity, inventory |-> None, tracksInventory |-> None]

\* the BundleProducts JSON.parse gives for the products of a stored config
ParsedProducts(list) ==
    [i \in DOMAIN list |->
        [productId |-> list[i].productId,
         quantity |-> list[i].quantity,
         inventory |-> IF "inventory" \in DOMAIN list[i]
                       THEN list[i].inventory ELSE None,
         tracksInventory |-> IF "tracksInventory" \in DOMAIN list[i]
                             THEN list[i].tracksInventory ELSE None]]

\* JSON.stringify(bundleConfig)
JSONStringify(config) == [parses |-> TRUE, json |-> config]

\* what the service answers to a query of the block: a result with data, a
\* rejected promise, a result without data, userErrors of a mutation
AdminAnswers == {"ok", "error", "nodata"}
SaveAnswers == {"ok", "error", "userErrors"}

\* result.data.nodes of GET_PRODUCTS_INVENTORY: the node of a product id
InventoryNode(id) ==
    CASE id = ProductGid(PX) -> Some([totalInventory |-> 7, tracksInventory |-> TRUE])
      [] id = ProductGid(PY) -> Some([totalInventory |-> 0, tracksInventory |-> FALSE])
      [] id = ProductGid(PPlain) -> Some([totalInventory |-> 5, tracksInventory |-> TRUE])
      [] OTHER -> None

\* fetchInventory: const updatedProducts = products.map(...)
updatedProducts(list) ==
    [i \in DOMAIN list |->
        IF InventoryNode(list[i].productId) # None
        THEN [list[i] EXCEPT
                 !.inventory = Some(InventoryNode(list[i].productId)[1].totalInventory),
                 !.tracksInventory =
                     Some(InventoryNode(list[i].productId)[1].tracksInventory)]
        ELSE list[i]]

\* what the merchant can type into a Quantity field, character by character
TextInputs ==
    { <<"3">>, <<"0">>, <<"-", "2">>, <<"a", "b", "c">>, <<"2", ".", "7">>, <<>>, <<"0", "2">> }

DigitChars == <<"0", "1", "2", "3", "4", "5", "6", "7", "8", "9">>
IsDigit(c) == \E i \in DOMAIN DigitChars : DigitChars[i] = c
DigitValue(c) == (CHOOSE i \in DOMAIN DigitChars : DigitChars[i] = c) - 1

\* the value of the longest prefix of digits of text, read after acc; NaN if acc is
\* NaN and the text starts with no digit
RECURSIVE ParseDigits(_, _)
ParseDigits(text, acc) ==
    IF Len(text) = 0 \/ ~IsDigit(text[1]) THEN acc
    ELSE ParseDigits(Tail(text), (IF acc = NaN THEN 0 ELSE acc * 10) + DigitValue(text[1]))

\* parseInt(value): an optional sign, then digits up to the first other character
parseInt(text) ==
    LET signed == Len(text) > 0 /\ text[1] \in {"-", "+"}
        magnitude == ParseDigits(IF signed THEN Tail(text) ELSE text, NaN)
    IN  IF magnitude = NaN THEN NaN
        ELSE IF signed /\ text[1] = "-" THEN 0 - magnitude
        ELSE magnitude

\* parseInt(value) || 1
onChangeQuantity(text) == IF parseInt(text) \in {NaN, 0} THEN 1 ELSE parseInt(text)

\* Math.max(1, newQuantity)
MathMax1(newQuantity) ==
    IF newQuantity = NaN THEN NaN ELSE IF newQuantity > 1 THEN newQuantity ELSE 1

\* what the resource picker resolves with: the products selected, none on cancel;
\* the service has no node for PEmpty
Selections == { <<>>, <<PX>>, <<PX, PX>>, <<PY, PPlain>>, <<PEmpty>> }

\* the least run that awaits nothing
FreeRuns == {r \in Runs : runs[r] = NoRun}
FreeRun == CHOOSE r \in FreeRuns : \A q \in FreeRuns : r <= q

StartRun(op, label, list) ==
    runs' = [runs EXCEPT ![FreeRun] =
                [op |-> op, pc |-> label, products |-> list, isBundle |-> isBundle,
                 edited |-> FALSE]]

EndRun(r) == runs' = [runs EXCEPT ![r] = NoRun]

\* history: the merchant edited the list while these runs awaited fetchInventory
MarkEdited ==
    runs' = [r \in Runs |-> IF runs[r].pc = "fetchInventory"
                            THEN [runs[r] EXCEPT !.edited = TRUE] ELSE runs[r]]

\* the block shows its buttons
Rendered == selected # 0 /\ ~loading

\* the merchant does one more thing
Event == events < MaxEvents /\ events' = events + 1

\* the block is rendered on the details page of product n: useEffect starts
\* loadBundleConfig, which awaits the metafield query
RenderBlock(n) ==
    /\ selected = 0
    /\ selected' = n
    /\ metafieldValue' = Metafield(ProductGid(n))
    /\ StartRun("loadBundleConfig", "query(GET_PRODUCT_METAFIELDS)", <<>>)
    /\ UNCHANGED <<isBundle, bundleProducts, loading, saving, refreshingInventory, events>>
    /\ UNCHANGED webhookVars

\* loadBundleConfig: const result = await query(GET_PRODUCT_METAFIELDS, ...)
LoadBundleConfig(r) ==
    /\ runs[r].pc = "query(GET_PRODUCT_METAFIELDS)"
    /\ \E a \in AdminAnswers :
        IF \/ a # "ok"
           \/ metafieldValue = None
           \/ JSONParseThrows(metafieldValue[1])
        THEN /\ loading' = FALSE
             /\ EndRun(r)
             /\ UNCHANGED <<isBundle, bundleProducts>>
        ELSE LET config == JSONParse(metafieldValue[1])
                 list == IF "products" \in DOMAIN config
                         THEN ParsedProducts(config.products) ELSE <<>>
             IN  /\ isBundle' = config.isBundle
                 /\ bundleProducts' = list
                 /\ IF Len(list) > 0
                    THEN /\ runs' = [runs EXCEPT ![r].pc = "fetchInventory",
                                                 ![r].products = list]
                         /\ UNCHANGED loading
                    ELSE /\ loading' = FALSE
                         /\ EndRun(r)
    /\ UNCHANGED <<selected, saving, refreshingInventory, metafieldValue, events>>
    /\ UNCHANGED webhookVars

\* fetchInventory: const result = await query(GET_PRODUCTS_INVENTORY, ...), then
\* what its caller does after it
FetchInventory(r) ==
    /\ runs[r].pc = "fetchInventory"
    /\ \E a \in AdminAnswers :
        bundleProducts' = IF a = "ok" THEN updatedProducts(runs[r].products)
                          ELSE bundleProducts
    /\ loading' = IF runs[r].op = "loadBundleConfig" THEN FALSE ELSE loading
    /\ refreshingInventory' =
          IF runs[r].op = "handleRefreshInventory" THEN FALSE ELSE refreshingInventory
    /\ EndRun(r)
    /\ UNCHANGED <<selected, isBundle, saving, metafieldValue, events>>
    /\ UNCHANGED webhookVars

\* onPress={() => setIsBundle(!isBundle)}
ToggleBundle ==
    /\ Rendered
    /\ Event
    /\ isBundle' = ~isBundle
    /\ UNCHANGED <<selected, bundleProducts, loading, saving, refreshingInventory,
                   metafieldValue, runs>>
    /\ UNCHANGED webhookVars

\* handleAddProduct up to: await (api as any).resourcePicker(...)
HandleAddProduct ==
    /\ Rendered /\ isBundle
    /\ FreeRuns # {}
    /\ Event
    /\ StartRun("handleAddProduct", "resourcePicker", bundleProducts)
    /\ UNCHANGED <<selected, isBundle, bundleProducts, loading, saving, refreshingInventory,
                   metafieldValue>>
    /\ UNCHANGED webhookVars

\* const newProducts = selected.map(product => ({ productId: product.id, quantity: 1, ... }))
newProducts(selection) ==
    [i \in DOMAIN selection |-> BundleProduct(ProductGid(selection[i]), 1)]

\* const uniqueNewProducts = newProducts.filter(p => !existingIds.includes(p.productId))
uniqueNewProducts(existing, new) ==
    LET existingIds == {existing[i].productId : i \in DOMAIN existing}
    IN  SelectSeq(new, LAMBDA p : p.productId \notin existingIds)

\* const combinedProducts = [...bundleProducts, ...uniqueNewProducts]
combinedProducts(existing, selection) ==
    existing \o uniqueNewProducts(existing, newProducts(selection))

\* handleAddProduct after the picker resolved with a selection
ResourcePicker(r) ==
    /\ runs[r].pc = "resourcePicker"
    /\ \E selection \in Selections :
        IF Len(selection) = 0
        THEN /\ EndRun(r)
             /\ UNCHANGED bundleProducts
        ELSE /\ Len(combinedProducts(runs[r].products, selection)) <= MaxProducts
             /\ bundleProducts' = combinedProducts(runs[r].products, selection)
             /\ runs' = [runs EXCEPT
                            ![r].pc = "fetchInventory",
                            ![r].products = combinedProducts(runs[r].products, selection)]
    /\ UNCHANGED <<selected, isBundle, loading, saving, refreshingInventory, metafieldValue,
                   events>>
    /\ UNCHANGED webhookVars

\* const updated = bundleProducts.filter((_, i) => i !== index)
handleRemoveProduct(list, index) ==
    [i \in 1..(Len(list) - 1) |-> IF i < index THEN list[i] ELSE list[i + 1]]

HandleRemoveProduct(index) ==
    /\ Rendered /\ isBundle
    /\ index \in DOMAIN bundleProducts
    /\ Event
    /\ bundleProducts' = handleRemoveProduct(bundleProducts, index)
    /\ MarkEdited
    /\ UNCHANGED <<selected, isBundle, loading, saving, refreshingInventory, metafieldValue>>
    /\ UNCHANGED webhookVars

\* a change handler that stores the number it is given
handleQuantityChange_Unclamped(list, index, newQuantity) ==
    [list EXCEPT ![index].quantity = newQuantity]

\* updated[index] = { ...updated[index], quantity: Math.max(1, newQuantity) }
handleQuantityChange(list, index, newQuantity) ==
    [list EXCEPT ![index].quantity = MathMax1(newQuantity)]

\* onChange={(value) => handleQuantityChange(index, parseInt(value) || 1)}
HandleQuantityChange(index) ==
    /\ Rendered /\ isBundle
    /\ index \in DOMAIN bundleProducts
    /\ Event
    /\ \E value \in TextInputs :
        bundleProducts' = handleQuantityChange(bundleProducts, index, onChangeQuantity(value))
    /\ MarkEdited
    /\ UNCHANGED <<selected, isBundle, loading, saving, refreshingInventory, metafieldValue>>
    /\ UNCHANGED webhookVars

\* handleRefreshInventory up to: await fetchInventory(bundleProducts)
HandleRefreshInventory ==
    /\ Rendered /\ isBundle
    /\ Len(bundleProducts) > 0
    /\ ~refreshingInventory
    /\ FreeRuns # {}
    /\ Event
    /\ refreshingInventory' = TRUE
    /\ StartRun("handleRefreshInventory", "fetchInventory", bundleProducts)
    /\ UNCHANGED <<selected, isBundle, bundleProducts, loading, saving, metafieldValue>>
    /\ UNCHANGED webhookVars

\* handleSave up to: await query(SAVE_BUNDLE_CONFIG, ...)
HandleSave ==
    /\ Rendered /\ isBundle
    /\ ~saving
    /\ FreeRuns # {}
    /\ Event
    /\ saving' = TRUE
    /\ StartRun("handleSave", "query(SAVE_BUNDLE_CONFIG)", bundleProducts)
    /\ UNCHANGED <<selected, isBundle, bundleProducts, loading, refreshingInventory,
                   metafieldValue>>
    /\ UNCHANGED webhookVars

\* a handleSave that clears saving at the end of its try block only
SaveBundleConfig_NoFinally(r) ==
    /\ runs[r].pc = "query(SAVE_BUNDLE_CONFIG)"
    /\ \E a \in SaveAnswers :
        /\ metafieldValue' =
              IF a = "ok"
              THEN Some(JSONStringify([isBundle |-> runs[r].isBundle,
                                       products |-> runs[r].products]))
              ELSE metafieldValue
        /\ saving' = IF a = "ok" THEN FALSE ELSE saving
    /\ EndRun(r)
    /\ UNCHANGED <<selected, isBundle, bundleProducts, loading, refreshingInventory, events>>
    /\ UNCHANGED webhookVars

\* handleSave after the mutation was answered
SaveBundleConfig(r) ==
    /\ runs[r].pc = "query(SAVE_BUNDLE_CONFIG)"
    /\ \E a \in SaveAnswers :
        metafieldValue' =
            IF a = "ok"
            THEN Some(JSONStringify([isBundle |-> runs[r].isBundle,
                                     products |-> runs[r].products]))
            ELSE metafieldValue
    /\ saving' = FALSE
    /\ EndRun(r)
    /\ UNCHANGED <<selected, isBundle, bundleProducts, loading, refreshingInventory, events>>
    /\ UNCHANGED webhookVars

\* an availability that takes a product without inventory tracking for sold out
availability_UntrackedZero(product) ==
    IF product.tracksInventory \in {None, Some(FALSE)} THEN 0
    ELSE IF product.inventory = None THEN 0
    ELSE product.inventory[1] \div product.quantity

\* calculateBundleAvailability: the callback of bundleProducts.map; undefined is falsy,
\* so a product without tracksInventory counts as not tracked
availability(product) ==
    IF product.tracksInventory \in {None, Some(FALSE)} THEN Infinity
    ELSE IF product.inventory = None THEN 0
    ELSE IF product.quantity # 0 THEN product.inventory[1] \div product.quantity
    ELSE IF product.inventory[1] > 0 THEN Infinity
    ELSE IF product.inventory[1] < 0 THEN 0 - Infinity
    ELSE NaN

\* calculateBundleAvailability, of the bundleProducts of the render
calculateBundleAvailability(list) ==
    IF Len(list) = 0 THEN 0
    ELSE MathMin([i \in DOMAIN list |-> availability(list[i])])

\* the availability Banner: tone and text follow calculateBundleAvailability() > 0
BannerTone(list) == IF calculateBundleAvailability(list) > 0 THEN "success" ELSE "warning"

\* the webhook server of the admin runs receives nothing
NoDeliveries == [deliveries |-> 0, faults |-> 0, secret |-> NoSecret, orders |-> {}]

InitAdmin ==
    /\ scenario = NoDeliveries
    /\ level = InitialLevels([x |-> 7, y |-> 5])
    /\ HandlersIdle
    /\ BlockNotRendered

NextAdmin ==
    \/ \E n \in AdminProducts : RenderBlock(n)
    \/ \E r \in Runs : LoadBundleConfig(r)
    \/ \E r \in Runs : FetchInventory(r)
    \/ ToggleBundle
    \/ HandleAddProduct
    \/ \E r \in Runs : ResourcePicker(r)
    \/ \E index \in 1..MaxProducts : HandleRemoveProduct(index)
    \/ \E index \in 1..MaxProducts : HandleQuantityChange(index)
    \/ HandleRefreshInventory
    \/ HandleSave
    \/ \E r \in Runs : SaveBundleConfig(r)

SpecAdmin == InitAdmin /\ [][NextAdmin]_vars

\* every query of the block is answered at some time: its promise resolves or rejects
SpecAdminAnswered ==
    /\ InitAdmin /\ [][NextAdmin]_vars
    /\ \A r \in Runs : /\ WF_vars(LoadBundleConfig(r))
                       /\ WF_vars(FetchInventory(r))
                       /\ WF_vars(SaveBundleConfig(r))

----------------------------------------------------------------------------
(* Vocabulary of the properties *)

ItemOf(n) == VariantInventoryItem(ProductGid(n))

Received(h) == pc[h] # "idle"
Completed(h) == pc[h] = "done"

\* every received order is fully processed
Quiescent == \A h \in Handlers : pc[h] \in {"idle", "done"}

\* the calls of handler h for line item l with the given name
LineCalls(h, l, op) == {k \in DOMAIN calls[h] : calls[h][k].line = l /\ calls[h][k].op = op}

\* the calls syncBundleInventory made for the components while h processed line item l
SyncComponentCalls(h, l) ==
    {k \in DOMAIN calls[h] :
        /\ calls[h][k].line = l
        /\ calls[h][k].fn = "syncBundleInventory"
        /\ \/ calls[h][k].op = "getInventoryLevel"
           \/ /\ calls[h][k].op = "getInventoryItemId"
              /\ calls[h][k].arg # ProductGid(order[h].line_items[l].product_id)}

\* the component loop of processLineItem is over for line item l of handler h
ComponentsDone(h, l) ==
    /\ Received(h)
    /\ l \in DOMAIN order[h].line_items
    /\ \/ l < lineIdx[h]
       \/ l = lineIdx[h] /\ pc[h] \notin {"getBundleConfig", "getInventoryItemId", "adjustInventory"}

\* what the sale of line item li takes from inventory item it, by the stored configs
LineDecrement(li, it) ==
    IF li.product_id \in Bundles
    THEN SeqSum([i \in DOMAIN ConfigOf(li.product_id).products |->
                    IF VariantInventoryItem(ConfigOf(li.product_id).products[i].productId) = it
                    THEN ConfigOf(li.product_id).products[i].quantity * li.quantity
                    ELSE 0])
    ELSE 0

OrderDecrement(o, it) == SeqSum([l \in DOMAIN o.line_items |-> LineDecrement(o.line_items[l], it)])

ComponentItems == {it \in InventoryItems : it[2] \notin Bundles}

----------------------------------------------------------------------------
(* C1 *)

\* C1: over all deliveries of an order, each component of a bundle line item gets at
\* most one executed inventory delta for that line item.
C1_AtMostOneDeltaPerLineItem ==
    \A o \in Orders : \A l \in DOMAIN o.line_items : \A it \in InventoryItems :
        Cardinality(UNION {{<<h, k>> : k \in {j \in LineCalls(h, l, "adjustInventory") :
                                                  /\ order[h].id = o.id
                                                  /\ calls[h][j].arg = it
                                                  /\ Executed(calls[h][j].answer)}} :
                           h \in Handlers}) <= 1

----------------------------------------------------------------------------
(* C2 *)

\* C2: in every quiescent state with no failed call, each bundle's level is the minimum
\* over its components of floor(component level / component quantity).
C2_BundleReflectsScarcestComponent ==
    (Quiescent /\ faults = 0) =>
        \A b \in ValidBundles : level[ItemOf(b)] = ScarcestComponent(ConfigOf(b), level)

----------------------------------------------------------------------------
(* C3 *)

TwoSalesOfOneBundle(h1, h2) ==
    /\ h1 # h2
    /\ order[h1] = Order1
    /\ order[h2] = Order2
    /\ \A h \in Handlers \ {h1, h2} : ~Received(h)

\* C3: once two orders that each sell Kit have both completed, with every call
\* succeeding, Kit's level is min_i floor(final level_i / quantity_i).
C3_NoLostUpdate ==
    \A h1, h2 \in Handlers :
        (TwoSalesOfOneBundle(h1, h2) /\ Completed(h1) /\ Completed(h2) /\ faults = 0) =>
            level[ItemOf(PKit)] = ScarcestComponent(ConfigOf(PKit), level)

----------------------------------------------------------------------------
(* C4 *)

\* h has read a component level in its current syncBundleInventory and not yet set
InRecompute(h) ==
    /\ pc[h] \in {"sync.getInventoryItemId", "getInventoryLevel", "setInventory"}
    /\ LineCalls(h, lineIdx[h], "getInventoryLevel") # {}

\* this step is a component level read or a setInventory call of h
ReadsOrSets(h) == pc[h] \in {"getInventoryLevel", "setInventory"} /\ pc'[h] # pc[h]

BundleBeingSynced(h) ==
    IF pc[h] \in {"sync.getInventoryItemId(bundle)", "sync.getInventoryItemId",
                  "getInventoryLevel", "setInventory"}
    THEN Some(productId(h)) ELSE None

\* C4: between the first level read of one syncBundleInventory and its setInventory, no
\* other invocation for the same bundle reads a component level or sets the bundle.
C4_RecomputeThenSetLinearized ==
    [][\A h1, h2 \in Handlers :
          (h1 # h2 /\ InRecompute(h1) /\ BundleBeingSynced(h2) = BundleBeingSynced(h1))
              => ~ReadsOrSets(h2)]_vars

----------------------------------------------------------------------------
(* C5 *)

\* the executed adjustInventory calls of h for line item l on inventory item it
ExecutedDeltas(h, l, it) ==
    {k \in LineCalls(h, l, "adjustInventory") :
        calls[h][k].arg = it /\ Executed(calls[h][k].answer)}

DistinctOrders == \A h1, h2 \in Handlers : (Received(h1) /\ Received(h2) /\ h1 # h2)
                                              => order[h1].id # order[h2].id

\* C5: when distinct orders have been processed, concurrently or not, with every call
\* succeeding, each component's level is its initial level minus the sum of the orders'
\* deltas, and each delta was applied exactly once.
C5_ComponentLevelsConverge ==
    (Quiescent /\ faults = 0 /\ DistinctOrders) =>
        \A it \in ComponentItems :
            /\ level[it] = level0[it]
                             - SeqSum([h \in Handlers |-> OrderDecrement(order[h], it)])
            /\ \A h \in Handlers : \A l \in DOMAIN order[h].line_items :
                  LineDecrement(order[h].line_items[l], it) # 0
                      => Cardinality(ExecutedDeltas(h, l, it)) = 1

\* two sales of Kit ran interleaved: each handler read X after both deltas were applied
C5_Witness ==
    /\ TwoSalesOfOneBundle(1, 2) /\ Completed(1) /\ Completed(2) /\ faults = 0
    /\ \A h \in {1, 2} : \E k \in LineCalls(h, 1, "getInventoryLevel") :
          calls[h][k].arg = ItemOf(PX) /\ calls[h][k].val = level0[ItemOf(PX)] - 4
    /\ level[ItemOf(PX)] = level0[ItemOf(PX)] - 4
    /\ level[ItemOf(PY)] = level0[ItemOf(PY)] - 2

----------------------------------------------------------------------------
(* C6 *)

\* C6: if the adjustment of a component failed while a line item was processed, no
\* setInventory call is issued for the bundle for that line item.
C6_PartialFailureDefersBundle ==
    \A h \in Handlers : \A l \in DOMAIN order[h].line_items :
        (\E k \in LineCalls(h, l, "adjustInventory") : ~calls[h][k].ret)
            => LineCalls(h, l, "setInventory") = {}

----------------------------------------------------------------------------
(* C7 *)

\* C7: if syncBundleInventory could not resolve or read one of the components, it issues
\* no setInventory call.
C7_NoSetFromPartialSnapshot ==
    \A h \in Handlers : \A l \in DOMAIN order[h].line_items :
        (\E k \in SyncComponentCalls(h, l) : ~calls[h][k].ret)
            => LineCalls(h, l, "setInventory") = {}

----------------------------------------------------------------------------
(* C8 *)

\* the levels syncBundleInventory read for line item l of h, in component order
LevelsRead(h, l) ==
    LET reads == {k \in LineCalls(h, l, "getInventoryLevel") : calls[h][k].ret}
        nth(i) == CHOOSE k \in reads : Cardinality({j \in reads : j < k}) = i - 1
    IN  [i \in 1..Cardinality(reads) |-> calls[h][nth(i)].val]

AllLevelsRead(h, l) ==
    Len(LevelsRead(h, l)) = Len(ConfigOf(order[h].line_items[l].product_id).products)

\* min_i floor(L_i / Q_i)
MinFloor(L, config) ==
    LET n == CHOOSE m \in DOMAIN L : \A i \in DOMAIN L :
                 L[m] \div config.products[m].quantity <= L[i] \div config.products[i].quantity
    IN  L[n] \div config.products[n].quantity

\* C8: when every component level read succeeded with levels L_i, the value passed to
\* setInventory is min_i floor(L_i / Q_i).
C8_RecomputeFormula ==
    \A h \in Handlers : \A l \in DOMAIN order[h].line_items :
        \A k \in LineCalls(h, l, "setInventory") :
            (order[h].line_items[l].product_id \in ValidBundles /\ AllLevelsRead(h, l)) =>
                calls[h][k].val = MinFloor(LevelsRead(h, l),
                                           ConfigOf(order[h].line_items[l].product_id))

\* Kit was set from X = 5 and Y = 4: floor(5/2) = 2 is the minimum, not 4 or 5
C8_Witness ==
    \E h \in Handlers : \E k \in LineCalls(h, 1, "setInventory") :
        /\ order[h] = Order1
        /\ LevelsRead(h, 1) = <<5, 4>>
        /\ calls[h][k].val = 2

----------------------------------------------------------------------------
(* C9 *)

ComponentProducts(li) ==
    IF li.product_id \in Bundles
    THEN {ConfigOf(li.product_id).products[i] : i \in DOMAIN ConfigOf(li.product_id).products}
    ELSE {}

\* processLineItem resolved the inventory item of the component for line item l
Resolved(h, l, bundleProduct) ==
    \E k \in LineCalls(h, l, "getInventoryItemId") :
        /\ calls[h][k].fn = "processLineItem"
        /\ calls[h][k].arg = bundleProduct.productId
        /\ calls[h][k].ret

\* C9: processing a line item that sells n units of a bundle issues exactly one
\* adjustInventory call per resolved component, with delta -(quantity * n) at the
\* configured location, and none for a product that is not a component of the bundle.
C9_ComponentDecrement ==
    \A h \in Handlers : \A l \in DOMAIN order[h].line_items :
        ComponentsDone(h, l) =>
            LET li == order[h].line_items[l] IN
            /\ \A bp \in ComponentProducts(li) :
                  Resolved(h, l, bp) =>
                      /\ Cardinality({k \in LineCalls(h, l, "adjustInventory") :
                                         calls[h][k].arg = VariantInventoryItem(bp.productId)}) = 1
                      /\ \A k \in LineCalls(h, l, "adjustInventory") :
                            calls[h][k].arg = VariantInventoryItem(bp.productId)
                                => /\ calls[h][k].val = 0 - (bp.quantity * li.quantity)
                                   /\ calls[h][k].loc = SHOPIFY_LOCATION_ID
            /\ \A k \in LineCalls(h, l, "adjustInventory") :
                  \E bp \in ComponentProducts(li) :
                      /\ calls[h][k].arg = VariantInventoryItem(bp.productId)
                      /\ Resolved(h, l, bp)

\* two units of Kit2 (three X each) were sold: one call, delta -6
C9_Witness ==
    \E h \in Handlers :
        /\ order[h] = Order3 /\ ComponentsDone(h, 2)
        /\ \E k \in LineCalls(h, 2, "adjustInventory") :
              calls[h][k].arg = ItemOf(PX) /\ calls[h][k].val = -6

----------------------------------------------------------------------------
(* C10 *)

OnlyDelivery(h) == Received(h) /\ \A g \in Handlers \ {h} : ~Received(g)

\* C10: when one order selling a bundle is processed alone and every call succeeds, at
\* completion each component has dropped by quantity * units sold and the bundle's level
\* is min_i floor(level_i / quantity_i) of the levels after the decrement.
C10_SuccessfulSingleCycle ==
    \A h \in Handlers :
        (OnlyDelivery(h) /\ Completed(h) /\ faults = 0) =>
            /\ \A it \in ComponentItems : level[it] = level0[it] - OrderDecrement(order[h], it)
            /\ \A l \in DOMAIN order[h].line_items :
                  order[h].line_items[l].product_id \in ValidBundles =>
                      level[ItemOf(order[h].line_items[l].product_id)]
                          = ScarcestComponent(ConfigOf(order[h].line_items[l].product_id), level)

\* Scenario A: X 10 to 8, Y 3 to 2, Kit set to 2
C10_Witness ==
    /\ OnlyDelivery(1) /\ Completed(1) /\ faults = 0 /\ order[1] = Order1
    /\ level0[ItemOf(PX)] = 10 /\ level0[ItemOf(PY)] = 3 /\ level0[ItemOf(PKit)] = 3
    /\ level[ItemOf(PX)] = 8 /\ level[ItemOf(PY)] = 2 /\ level[ItemOf(PKit)] = 2

----------------------------------------------------------------------------
(* C11 *)

\* the line items the handler has to process: none when it never ran or threw at once
LineItems(h) == IF HandlerThrows(order[h]) THEN {} ELSE DOMAIN order[h].line_items

\* processLineItem got a bundle's config for line item l of h
ConfigObtained(h, l) ==
    /\ order[h].line_items[l].product_id \in Bundles
    /\ \E k \in LineCalls(h, l, "getBundleConfig") : calls[h][k].ret

\* the executed adjustInventory calls of h, in the order they were made
ExecutedAdjustments(h) ==
    SelectSeq(calls[h], LAMBDA c : c.op = "adjustInventory" /\ Executed(c.answer))

RECURSIVE DeltaSum(_, _)
DeltaSum(s, it) ==
    IF s = <<>> THEN 0
    ELSE (IF Head(s).arg = it THEN Head(s).val ELSE 0) + DeltaSum(Tail(s), it)

\* the sum of the deltas on inventory item it among the executed calls adj of the handlers
AppliedDeltas(adj, it) == SeqSum([h \in Handlers |-> DeltaSum(adj[h], it)])

\* C11: whatever calls failed, once the component loop of a bundle line item is over
\* every component was looked up and every resolved component got its adjustment call;
\* a completed handler looked up the config of every line item; and each component's
\* level is its initial level plus the deltas that were executed.
C11_FailureContainment ==
    /\ \A h \in Handlers : \A l \in LineItems(h) :
          (ComponentsDone(h, l) /\ ConfigObtained(h, l)) =>
              \A bp \in ComponentProducts(order[h].line_items[l]) :
                  /\ \E k \in LineCalls(h, l, "getInventoryItemId") :
                        /\ calls[h][k].fn = "processLineItem"
                        /\ calls[h][k].arg = bp.productId
                  /\ Resolved(h, l, bp) =>
                        \E k \in LineCalls(h, l, "adjustInventory") :
                            calls[h][k].arg = VariantInventoryItem(bp.productId)
    /\ \A h \in Handlers : Completed(h) =>
          \A l \in LineItems(h) : Cardinality(LineCalls(h, l, "getBundleConfig")) = 1
    /\ LET adj == [h \in Handlers |-> ExecutedAdjustments(h)] IN
          \A it \in ComponentItems : level[it] = level0[it] + AppliedDeltas(adj, it)

\* the adjustment of X failed, Y was still lowered by one and the order was completed
C11_Witness ==
    /\ order[1] = Order1 /\ Completed(1)
    /\ \E k \in LineCalls(1, 1, "adjustInventory") :
          calls[1][k].arg = ItemOf(PX) /\ ~calls[1][k].ret /\ ~Executed(calls[1][k].answer)
    /\ \E k \in LineCalls(1, 1, "adjustInventory") :
          calls[1][k].arg = ItemOf(PY) /\ calls[1][k].ret
    /\ level[ItemOf(PX)] = level0[ItemOf(PX)]
    /\ level[ItemOf(PY)] = level0[ItemOf(PY)] - 1

----------------------------------------------------------------------------
(* C12 *)

\* processLineItem looked the component up for line item l and got null
Unresolved(h, l, bundleProduct) ==
    \E k \in LineCalls(h, l, "getInventoryItemId") :
        /\ calls[h][k].fn = "processLineItem"
        /\ calls[h][k].arg = bundleProduct.productId
        /\ ~calls[h][k].ret

AdjustCalls(h, l, bundleProduct) ==
    {k \in LineCalls(h, l, "adjustInventory") :
        calls[h][k].arg = VariantInventoryItem(bundleProduct.productId)}

\* C12: when getInventoryItemId returned null for a component of a bundle line item, no
\* adjustInventory call is issued for that component, and every other component is
\* looked up and, once resolved, adjusted by one call.
C12_UnresolvableComponentSkipped ==
    \A h \in Handlers : \A l \in LineItems(h) :
        (ComponentsDone(h, l) /\ ConfigObtained(h, l)) =>
            \A bp \in ComponentProducts(order[h].line_items[l]) :
                Unresolved(h, l, bp) =>
                    /\ AdjustCalls(h, l, bp) = {}
                    /\ \A other \in ComponentProducts(order[h].line_items[l]) \ {bp} :
                          /\ Unresolved(h, l, other) \/ Resolved(h, l, other)
                          /\ Resolved(h, l, other) => Cardinality(AdjustCalls(h, l, other)) = 1

\* X, the first component of Kit, could not be resolved; Y was lowered all the same
C12_Witness ==
    \E h \in Handlers :
        /\ order[h] = Order1 /\ ComponentsDone(h, 1)
        /\ Unresolved(h, 1, ConfigOf(PKit).products[1])
        /\ AdjustCalls(h, 1, ConfigOf(PKit).products[1]) = {}
        /\ \E k \in AdjustCalls(h, 1, ConfigOf(PKit).products[2]) : calls[h][k].answer = "ok"
        /\ level[ItemOf(PX)] = level0[ItemOf(PX)]
        /\ level[ItemOf(PY)] = level0[ItemOf(PY)] - 1

----------------------------------------------------------------------------
(* C13 *)

\* the config lookups of the handlers, as (handler, call) pairs
ConfigLookups ==
    UNION {{<<h, k>> : k \in {j \in DOMAIN calls[h] : calls[h][j].op = "getBundleConfig"}} :
           h \in Handlers}

\* the lookup failed: the request threw (transport error or non-OK response)
LookupFailed(c) == QueryThrows(calls[c[1]][c[2]].answer)

\* the lookup succeeded and the product has no bundle metafield
NoMetafield(c) ==
    ~QueryThrows(calls[c[1]][c[2]].answer) /\ Metafield(calls[c[1]][c[2]].arg) = None

\* what getBundleConfig handed to processLineItem
Outcome(c) == getBundleConfig(calls[c[1]][c[2]].arg, calls[c[1]][c[2]].answer)

\* C13: the outcome processLineItem gets from a failed config lookup differs from the
\* outcome it gets for a product without bundle metafield.
C13_LookupFailureDistinguishable ==
    \A c, d \in ConfigLookups : (LookupFailed(c) /\ NoMetafield(d)) => Outcome(c) # Outcome(d)

----------------------------------------------------------------------------
(* C14 *)

\* the config lookup for line item l of h succeeded and found no bundle metafield
NotABundle(h, l) == \E k \in LineCalls(h, l, "getBundleConfig") : NoMetafield(<<h, k>>)

InventoryOps == {"getInventoryItemId", "getInventoryLevel", "adjustInventory", "setInventory"}

\* the inventory calls h issued for line item l
InventoryCalls(h, l) ==
    {k \in DOMAIN calls[h] : calls[h][k].line = l /\ calls[h][k].op \in InventoryOps}

\* C14: a line item whose config lookup found no bundle metafield gets no inventory call
\* of any kind, and while a lone handler has processed only such line items every
\* inventory level is what it was.
C14_NotABundleNoInventoryCalls ==
    \A h \in Handlers :
        /\ \A l \in LineItems(h) : NotABundle(h, l) => InventoryCalls(h, l) = {}
        /\ (OnlyDelivery(h) /\ \A k \in DOMAIN calls[h] : NotABundle(h, calls[h][k].line))
               => level = level0

\* Plain, the first line item of order 1003, is done and the handler is at Kit2
C14_Witness ==
    \E h \in Handlers :
        /\ OnlyDelivery(h) /\ order[h] = Order3
        /\ lineIdx[h] = 2 /\ pc[h] = "getBundleConfig"
        /\ NotABundle(h, 1) /\ Len(calls[h]) = 1
        /\ level = level0

----------------------------------------------------------------------------
(* C15 *)

\* the stored config of product n parses and is not actionable:
\* flag off, or flag on with no component list or an empty one
NonActionableConfig(n) ==
    /\ Metafield(ProductGid(n)) # None
    /\ Metafield(ProductGid(n))[1].parses
    /\ LET config == Metafield(ProductGid(n))[1].json IN
          \/ ~config.isBundle
          \/ "products" \notin DOMAIN config
          \/ config.products = <<>>

\* processLineItem got such a config for line item l of h
NonActionable(h, l) ==
    /\ NonActionableConfig(order[h].line_items[l].product_id)
    /\ \E k \in LineCalls(h, l, "getBundleConfig") : calls[h][k].ret

\* C15: a line item whose config has isBundle = false, or isBundle = true with a missing
\* or empty component list, gets no inventory call, the handler does not fail, and it
\* goes on to look up the next line item.
C15_NonActionableConfigNoOp ==
    \A h \in Handlers : \A l \in LineItems(h) :
        NonActionable(h, l) =>
            /\ InventoryCalls(h, l) = {}
            /\ lineIdx[h] > l
            /\ status[h] # 500
            /\ Completed(h) => status[h] = 200
            /\ (l + 1 \in LineItems(h) /\ lineIdx[h] > l + 1)
                  => LineCalls(h, l + 1, "getBundleConfig") # {}

\* order 1004 (flag off, no component list, empty list) went through without a call
\* other than the four config lookups
C15_Witness ==
    \E h \in Handlers :
        /\ order[h] = Order4 /\ Completed(h) /\ status[h] = 200
        /\ NonActionable(h, 2) /\ NonActionable(h, 3) /\ NonActionable(h, 4)
        /\ Len(calls[h]) = 4
        /\ OnlyDelivery(h) => level = level0

----------------------------------------------------------------------------
(* C16 *)

\* the config lookup for line item l of h was answered with a metafield value that is
\* not valid JSON
Unparseable(h, l) ==
    /\ Metafield(ProductGid(order[h].line_items[l].product_id)) # None
    /\ ~Metafield(ProductGid(order[h].line_items[l].product_id))[1].parses
    /\ \E k \in LineCalls(h, l, "getBundleConfig") : ~QueryThrows(calls[h][k].answer)

\* C16: a line item whose bundle metafield does not parse gets no inventory call, the
\* handler does not answer 500 because of it, and the line items after it are looked up.
C16_UnparseableConfigNonActionable ==
    \A h \in Handlers : \A l \in LineItems(h) :
        Unparseable(h, l) =>
            /\ InventoryCalls(h, l) = {}
            /\ status[h] # 500
            /\ Completed(h) =>
                  /\ status[h] = 200
                  /\ \A m \in LineItems(h) : m > l => LineCalls(h, m, "getBundleConfig") # {}
            /\ ~Completed(h) => lineIdx[h] > l

\* the first line item of order 1004 has a truncated config; the handler is past it
C16_Witness ==
    \E h \in Handlers :
        /\ order[h] = Order4 /\ Unparseable(h, 1)
        /\ \E k \in LineCalls(h, 1, "getBundleConfig") : ~calls[h][k].ret
        /\ LineCalls(h, 2, "getBundleConfig") # {}
        /\ InventoryCalls(h, 1) = {}

----------------------------------------------------------------------------
(* C17 *)

\* the request passed express.json and the handler took its body
Handled(h) == Received(h) /\ order[h] # NoOrder

\* the calls of h that were not answered with a plain success
FailedCalls(h) == {k \in DOMAIN calls[h] : calls[h][k].answer # "ok"}

----------------------------------------------------------------------------
(* C18 *)

\* processing the order failed: the handler threw, or a config lookup, a component
\* adjustment or a bundle sync of one of its line items threw or reported user errors
ProcessingFailed(h) ==
    \/ HandlerThrows(order[h])
    \/ \E k \in DOMAIN calls[h] : calls[h][k].answer \in {"error", "lost", "userErrors"}

\* C18: the answer to a handled order is 200 only when it was processed successfully
\* and 500 when processing failed.
C18_ResponseCodesAsDocumented ==
    \A h \in Handlers :
        (Handled(h) /\ Completed(h)) =>
            /\ status[h] = 200 => ~ProcessingFailed(h)
            /\ ProcessingFailed(h) => status[h] = 500

----------------------------------------------------------------------------
(* C19 *)

\* processLineItem ran for the request of h
ReachedProcessLineItem(h) == calls[h] # <<>>

\* C19: when the webhook secret is set, a request reaches processLineItem only if its
\* X-Shopify-Hmac-Sha256 header is the HMAC-SHA256 of its body under the secret.
C19_SignatureVerifiedIfSecretSet ==
    \A h \in Handlers :
        (scenario.secret # NoSecret /\ ReachedProcessLineItem(h)) =>
            hmac[h] = Some(HmacSha256(scenario.secret, order[h]))

----------------------------------------------------------------------------
(* C20 *)

\* C20: while one delivery of a line item is processed, each component gets at most one
\* adjustInventory request, whether the request succeeded, reported user errors, failed
\* in transport or was executed with its response lost.
C20_DeltaNeverRetried ==
    \A h \in Handlers : \A l \in LineItems(h) :
        \A bp \in ComponentProducts(order[h].line_items[l]) :
            Cardinality(AdjustCalls(h, l, bp)) <= 1

\* the response to the delta on X was lost; the order completed with that one request
C20_Witness ==
    \E h \in Handlers :
        /\ order[h] = Order1 /\ Completed(h)
        /\ Cardinality(AdjustCalls(h, 1, ConfigOf(PKit).products[1])) = 1
        /\ \E k \in AdjustCalls(h, 1, ConfigOf(PKit).products[1]) :
              calls[h][k].answer = "lost" /\ ~calls[h][k].ret
        /\ OnlyDelivery(h) => level[ItemOf(PX)] = level0[ItemOf(PX)] - 2

----------------------------------------------------------------------------
(* C21 *)

\* the service refused the request for its rate: 429 Too Many Requests (a status that
\* is not OK) or an OK response with a THROTTLED error and no data
Throttled(answer) == answer \in {"error", "nodata"}

\* from call k on the service accepted every request of h
AcceptingAfter(h, k) == \A j \in DOMAIN calls[h] : j > k => calls[h][j].answer = "ok"

\* C21: when a component's delta was throttled and the service accepted every later
\* request, the delta has been re-issued and applied by the end of the component loop.
C21_ThrottledAdjustmentRetried ==
    \A h \in Handlers : \A l \in LineItems(h) :
        ComponentsDone(h, l) =>
            \A bp \in ComponentProducts(order[h].line_items[l]) :
                (\E k \in AdjustCalls(h, l, bp) :
                    Throttled(calls[h][k].answer) /\ AcceptingAfter(h, k))
                    => \E k \in AdjustCalls(h, l, bp) : Executed(calls[h][k].answer)

----------------------------------------------------------------------------
(* C22 *)

\* C22: every received order eventually gets a response, also when a call to the
\* service never answers.
C22_EveryOrderAnswered == \A h \in Handlers : Received(h) ~> status[h] # 0

----------------------------------------------------------------------------
(* C23 *)

\* h has sent an adjustInventory request and awaits its answer
ApplyInFlight(h) == pc[h] = "adjustInventory"

\* the (order id, line item, component) the request in flight is for
TripleInFlight(h) == <<order[h].id, lineItem(h).id, component(h).productId>>

\* C23: no two adjustInventory requests for one (order id, line item, component) are
\* outstanding at once, also when the order is delivered twice.
C23_OneApplyInFlightPerTriple ==
    \A h1, h2 \in Handlers :
        (h1 # h2 /\ ApplyInFlight(h1) /\ ApplyInFlight(h2))
            => TripleInFlight(h1) # TripleInFlight(h2)

----------------------------------------------------------------------------
(* C24 *)

SyncLabels ==
    {"sync.getInventoryItemId(bundle)", "sync.getInventoryItemId", "getInventoryLevel",
     "setInventory"}

\* this step is a step of the syncBundleInventory of h
SyncStep(h) == pc[h] \in SyncLabels /\ calls'[h] # calls[h]

\* the call the step of h issued and got answered
StepCall(h) == calls'[h][Len(calls'[h])]

\* C24: a step of syncBundleInventory issues no adjustInventory call and changes no
\* level but the bundle's own; an executed set leaves the bundle at the computed value
\* (a value that is no finite number is never stored), so a second run that computes
\* the same value leaves the level as the first left it.
C24_RecomputeDeltaFreeIdempotent ==
    [][\A h \in Handlers :
          SyncStep(h) =>
              LET bundle == ItemOf(lineItem(h).product_id) IN
              /\ StepCall(h).op # "adjustInventory"
              /\ \A it \in InventoryItems \ {bundle} : level'[it] = level[it]
              /\ (StepCall(h).op = "setInventory" /\ Executed(StepCall(h).answer)
                    /\ Finite(bundleInventory[h]))
                    => level'[bundle] = bundleInventory[h]
              /\ (StepCall(h).op = "setInventory" /\ ~Finite(bundleInventory[h]))
                    => level' = level
              /\ (StepCall(h).op = "setInventory" /\ level[bundle] = bundleInventory[h])
                    => level' = level
              /\ StepCall(h).op # "setInventory" => level' = level]_vars

\* two syncs of Kit read the same component levels one after the other; both set the
\* same value and Kit holds it
C24_Witness ==
    /\ TwoSalesOfOneBundle(1, 2) /\ Completed(1) /\ Completed(2) /\ faults = 0
    /\ LevelsRead(1, 1) = LevelsRead(2, 1)
    /\ \A h \in {1, 2} : \E k \in LineCalls(h, 1, "setInventory") :
          calls[h][k].val = level[ItemOf(PKit)]
    /\ level[ItemOf(PKit)] # level0[ItemOf(PKit)]

----------------------------------------------------------------------------
(* C25 *)

\* the quantity the stored config of bundle n gives to the component with inventory item it
QuantityOf(n, it) ==
    LET config == ConfigOf(n)
        i == CHOOSE j \in DOMAIN config.products :
                 VariantInventoryItem(config.products[j].productId) = it
    IN  config.products[i].quantity

\* the bundles each level read of line item l of h allows, in the order of the reads
AvailableFromReads(h, l) ==
    LET reads == LevelsRead(h, l)
        items == {k \in LineCalls(h, l, "getInventoryLevel") : calls[h][k].ret}
        nth(i) == CHOOSE k \in items : Cardinality({j \in items : j < k}) = i - 1
    IN  [i \in DOMAIN reads |->
            reads[i] \div QuantityOf(order[h].line_items[l].product_id, calls[h][nth(i)].arg)]

\* the least member of a non-empty sequence of integers
Least(s) == CHOOSE m \in {s[i] : i \in DOMAIN s} : \A i \in DOMAIN s : m <= s[i]

\* C25: every level syncBundleInventory gets is the level the service holds when the
\* read is answered, and the value it sets is computed from the levels read since this
\* invocation started (those of the same line item of the same handler) and no others.
C25_NoCachedLevels ==
    [][\A h \in Handlers :
          (calls'[h] # calls[h] /\ lineItem(h).product_id \in ValidBundles) =>
              /\ (StepCall(h).op = "getInventoryLevel" /\ StepCall(h).ret)
                    => StepCall(h).val = level[StepCall(h).arg]
              /\ StepCall(h).op = "setInventory"
                    => /\ AvailableFromReads(h, lineIdx[h]) # <<>>
                       /\ StepCall(h).val = Least(AvailableFromReads(h, lineIdx[h]))]_vars

\* order 1006 sells Kit in two line items: the second sync read X and Y anew, two and
\* one lower than the first sync had read them
C25_Witness ==
    \E h \in Handlers :
        /\ order[h] = Order6 /\ Completed(h) /\ faults = 0
        /\ LevelsRead(h, 1) = <<level0[ItemOf(PX)] - 2, level0[ItemOf(PY)] - 1>>
        /\ LevelsRead(h, 2) = <<level0[ItemOf(PX)] - 4, level0[ItemOf(PY)] - 2>>
        /\ \E k \in LineCalls(h, 2, "setInventory") : calls[h][k].val = level[ItemOf(PKit)]

\* the config stored for the product of line item l of h's order has a component
\* whose quantity is 0 or less
InvalidQuantity(h, l) ==
    /\ order[h].line_items[l].product_id \in Bundles
    /\ \E i \in DOMAIN ConfigOf(order[h].line_items[l].product_id).products :
           ConfigOf(order[h].line_items[l].product_id).products[i].quantity < 1

\* C26: a stored config with a component quantity of 0 or less leads to no
\* adjustInventory and no setInventory call for its line item.
C26_OnlyValidatedConfigsActedOn ==
    \A h \in Handlers :
        Received(h) =>
            \A l \in LineItems(h) :
                InvalidQuantity(h, l) =>
                    /\ LineCalls(h, l, "adjustInventory") = {}
                    /\ LineCalls(h, l, "setInventory") = {}

\* the values setInventory was called with
ValuesWritten ==
    UNION {{calls[h][k].val : k \in {j \in DOMAIN calls[h] : calls[h][j].op = "setInventory"}} :
              h \in Handlers}

\* C27: every component level and every value written to a bundle by setInventory
\* is a non-negative integer, also when a bundle is sold in a quantity that
\* exceeds what the component stock covers.
C27_LevelsNonNegative ==
    /\ \A n \in {PX, PY} : level[ItemOf(n)] >= 0
    /\ \A v \in ValuesWritten : Finite(v) /\ v >= 0

\* the calls h made for line item l inside the function fn
CallsIn(h, l, fn) == {k \in DOMAIN calls[h] : calls[h][k].line = l /\ calls[h][k].fn = fn}

\* syncBundleInventory has begun for line item l of h
SyncBegun(h, l) ==
    \/ CallsIn(h, l, "syncBundleInventory") # {}
    \/ l = lineIdx[h] /\ pc[h] \in SyncLabels

\* setInventory has been issued for line item l of h: it is awaited or has returned
SetIssued(h, l) ==
    \/ LineCalls(h, l, "setInventory") # {}
    \/ l = lineIdx[h] /\ pc[h] = "setInventory"

\* C28: within one bundle line item every adjustInventory call has returned before
\* syncBundleInventory makes its first call, by then the component loop has looked up
\* every component and adjusted each one it resolved, and setInventory is issued only
\* after the recomputation has visited every component and made all its level reads.
C28_AdjustBeforeRecompute ==
    \A h \in Handlers :
        \A l \in LineItems(h) :
            LET config == ConfigOf(order[h].line_items[l].product_id)
                lookups == {k \in CallsIn(h, l, "processLineItem") :
                               calls[h][k].op = "getInventoryItemId"}
                adjusts == LineCalls(h, l, "adjustInventory")
                reads == LineCalls(h, l, "getInventoryLevel")
                visits == {k \in SyncComponentCalls(h, l) :
                              calls[h][k].op = "getInventoryItemId"}
            IN  /\ \A k \in adjusts : \A j \in CallsIn(h, l, "syncBundleInventory") : k < j
                /\ SyncBegun(h, l) =>
                      /\ Cardinality(lookups) = Len(config.products)
                      /\ Cardinality(adjusts) =
                             Cardinality({k \in lookups : calls[h][k].ret})
                /\ SetIssued(h, l) =>
                      /\ Cardinality(visits) = Len(config.products)
                      /\ Cardinality(reads) = Cardinality({k \in visits : calls[h][k].ret})
                      /\ \A k \in LineCalls(h, l, "setInventory") :
                             \A j \in reads \cup visits : j < k

C28_Witness ==
    \E h \in Handlers :
        /\ order[h] = Order1 /\ Completed(h) /\ faults = 0
        /\ [k \in DOMAIN calls[h] |-> calls[h][k].op] =
              <<"getBundleConfig", "getInventoryItemId", "adjustInventory",
                "getInventoryItemId", "adjustInventory", "getInventoryItemId",
                "getInventoryItemId", "getInventoryLevel", "getInventoryItemId",
                "getInventoryLevel", "setInventory">>

\* every product of the list has a quantity of at least 1
QuantitiesValid(list) == \A i \in DOMAIN list : list[i].quantity >= 1

\* the configs handleSave has written or is writing
ConfigsWritten ==
    {[isBundle |-> runs[r].isBundle, products |-> runs[r].products] :
        r \in {q \in Runs : runs[q].op = "handleSave"}}
    \cup (IF selected # 0 /\ metafieldValue # None /\ metafieldValue # Metafield(ProductGid(selected))
          THEN {JSONParse(metafieldValue[1])} ELSE {})

\* C29: the stored configs the block starts from have quantities >= 1; after any
\* load, add, remove and quantity change (whatever is typed into the field) every
\* product of bundleProducts and of every config handleSave writes has quantity >= 1.
C29_AdminQuantityAtLeastOne ==
    /\ QuantitiesValid(bundleProducts)
    /\ \A r \in Runs : QuantitiesValid(runs[r].products)
    /\ \A config \in ConfigsWritten : QuantitiesValid(config.products)

\* Kit is stored with 2 x X; one change of X's field to a text that is no quantity
\* and one save have stored it with 1 x X
C29_Witness ==
    /\ selected = PKit
    /\ events = 2
    /\ \E config \in ConfigsWritten :
          /\ Len(config.products) = 2
          /\ config.products[1].productId = ProductGid(PX)
          /\ config.products[1].quantity = 1
    /\ \A r \in Runs : runs[r] = NoRun

\* C30: whatever the resource picker returned to the adds made, no productId occurs
\* more than once in bundleProducts.
C30_NoDuplicateComponents ==
    \A i, j \in DOMAIN bundleProducts :
        i # j => bundleProducts[i].productId # bundleProducts[j].productId

\* the block has inventory data for every product of the list
HasInventoryData(list) ==
    \A i \in DOMAIN list : list[i].inventory # None /\ list[i].tracksInventory # None

\* the products of the list that track inventory
Tracked(list) == {i \in DOMAIN list : list[i].tracksInventory = Some(TRUE)}

\* min over the tracked products of floor(inventory / quantity); unlimited if none
MinOverTracked(list) ==
    IF Tracked(list) = {} THEN Infinity
    ELSE LET n == CHOOSE m \in Tracked(list) : \A i \in Tracked(list) :
                     list[m].inventory[1] \div list[m].quantity
                         <= list[i].inventory[1] \div list[i].quantity
         IN  list[n].inventory[1] \div list[n].quantity

\* C31: calculateBundleAvailability gives 0 for an empty bundle and otherwise the
\* minimum of floor(inventory / quantity) over the products that track inventory;
\* a product that does not track inventory never lowers it.
C31_AdminAvailabilityFormula ==
    /\ Len(bundleProducts) = 0 => calculateBundleAvailability(bundleProducts) = 0
    /\ (Len(bundleProducts) > 0 /\ HasInventoryData(bundleProducts)) =>
          calculateBundleAvailability(bundleProducts) = MinOverTracked(bundleProducts)

\* Kit's X (7 in stock, 2 per bundle), its untracked Y and Plain (5 in stock, changed
\* to 3 per bundle): Plain limits the bundle to 1
C31_Witness ==
    /\ Len(bundleProducts) = 3
    /\ HasInventoryData(bundleProducts)
    /\ bundleProducts[1].productId = ProductGid(PX) /\ bundleProducts[1].quantity = 2
    /\ bundleProducts[2].tracksInventory = Some(FALSE)
    /\ bundleProducts[3].productId = ProductGid(PPlain) /\ bundleProducts[3].quantity = 3
    /\ calculateBundleAvailability(bundleProducts) = 1

\* the block has no inventory data for some product of the list
InventoryDataMissing(list) == \E i \in DOMAIN list : list[i].inventory = None

\* C32: while inventory data is missing for some product of the bundle,
\* calculateBundleAvailability gives 0 and the banner says that no bundle can be made.
C32_MissingInventoryCountsAsZero ==
    (~loading /\ InventoryDataMissing(bundleProducts)) =>
        /\ calculateBundleAvailability(bundleProducts) = 0
        /\ BannerTone(bundleProducts) = "warning"

\* the adjustInventory and setInventory calls h has made
Mutations(h) ==
    {k \in DOMAIN calls[h] : calls[h][k].op \in {"adjustInventory", "setInventory"}}

\* C33: adjustInventory and setInventory return true only for a request the service
\* applied; for a transport error, a non-OK status, userErrors and an OK response with
\* top-level errors and no data they return false.
C33_ReportedSuccessImpliesApplied ==
    \A h \in Handlers :
        \A k \in Mutations(h) :
            /\ calls[h][k].ret => Executed(calls[h][k].answer)
            /\ calls[h][k].answer \in {"error", "userErrors", "nodata"} => ~calls[h][k].ret

\* the products of a list and their quantities, without the inventory data
Contents(list) == [i \in DOMAIN list |-> <<list[i].productId, list[i].quantity>>]

\* this step is fetchInventory of run r getting its answer
FetchCompletes(r) == runs[r].pc = "fetchInventory" /\ runs'[r] = NoRun

\* C34: when the merchant changed a quantity or removed a product while fetchInventory
\* was awaiting its response, the answer leaves the products and quantities of
\* bundleProducts as they are: it does not bring back the list the fetch started with.
C34_EditsSurviveFetch ==
    [][\A r \in Runs :
          (FetchCompletes(r) /\ runs[r].edited) =>
              Contents(bundleProducts') = Contents(bundleProducts)]_vars

\* processLineItem has returned for line item l of h, by the calls h made for it: the
\* config was looked up; if the component loop was entered it looked up every
\* component and syncBundleInventory followed; a sync that resolved the bundle
\* visited every component and, if a level was read, called setInventory
LineFinished(h, l) ==
    LET config == ConfigOf(order[h].line_items[l].product_id)
        lookups == {k \in CallsIn(h, l, "processLineItem") :
                       calls[h][k].op = "getInventoryItemId"}
        sync == CallsIn(h, l, "syncBundleInventory")
        visits == {k \in SyncComponentCalls(h, l) : calls[h][k].op = "getInventoryItemId"}
        reads == {k \in LineCalls(h, l, "getInventoryLevel") : calls[h][k].ret}
    IN  /\ LineCalls(h, l, "getBundleConfig") # {}
        /\ lookups # {} =>
              /\ Cardinality(lookups) = Len(config.products)
              /\ sync # {}
        /\ (\E k \in sync \ SyncComponentCalls(h, l) :
               calls[h][k].op = "getInventoryItemId" /\ calls[h][k].ret) =>
              /\ Cardinality(visits) = Len(config.products)
              /\ reads # {} => LineCalls(h, l, "setInventory") # {}

\* C35: 200 is sent only when every line item of the order has finished, its sync
\* included; the calls of a handler go through the line items in list order, and a
\* call for a line item is made only when every line item before it has finished.
C35_ResponseFollowsAllWork ==
    \A h \in Handlers :
        /\ status[h] = 200 =>
              /\ pc[h] = "done"
              /\ \A l \in DOMAIN order[h].line_items : LineFinished(h, l)
        /\ \A j, k \in DOMAIN calls[h] : j < k => calls[h][j].line <= calls[h][k].line
        /\ \A k \in DOMAIN calls[h] :
              /\ calls[h][k].line \in DOMAIN order[h].line_items
              /\ calls[h][k].line <= lineIdx[h]
        /\ (Received(h) /\ ~HandlerThrows(order[h]) /\ status[h] # 403) =>
              \A l \in DOMAIN order[h].line_items : l < lineIdx[h] => LineFinished(h, l)

\* order 1006: both line items synced Kit, the second after the first, then 200
C35_Witness ==
    \E h \in Handlers :
        /\ order[h] = Order6 /\ status[h] = 200 /\ faults = 0
        /\ LineCalls(h, 1, "setInventory") # {} /\ LineCalls(h, 2, "setInventory") # {}
        /\ \A j \in LineCalls(h, 1, "setInventory") :
              \A k \in LineCalls(h, 2, "getBundleConfig") : j < k

\* syncBundleInventory of line item l of h could not resolve the bundle's own item
BundleUnresolved(h, l) ==
    \E k \in CallsIn(h, l, "syncBundleInventory") \ SyncComponentCalls(h, l) :
        calls[h][k].op = "getInventoryItemId" /\ ~calls[h][k].ret

\* syncBundleInventory of line item l of h is over and no component gave a level
NoLevelObtained(h, l) ==
    /\ CallsIn(h, l, "syncBundleInventory") # {}
    /\ l < lineIdx[h]
    /\ \A k \in LineCalls(h, l, "getInventoryLevel") : ~calls[h][k].ret

\* h has not called setInventory for the item, nor is it awaiting such a call
NeverSet(h, it) ==
    /\ \A k \in DOMAIN calls[h] : calls[h][k].op = "setInventory" => calls[h][k].arg # it
    /\ pc[h] = "setInventory" => bundleInventoryItemId[h] # Some(it)

\* C36: a sync that cannot resolve the bundle's own inventory item reads no component
\* and sets nothing; a sync no component gave a level to sets nothing; the level of a
\* bundle the only handler never set is what it was.
C36_SyncWithoutDataLeavesBundle ==
    \A h \in Handlers :
        /\ \A l \in LineItems(h) :
              /\ BundleUnresolved(h, l) =>
                    /\ SyncComponentCalls(h, l) = {}
                    /\ ~SetIssued(h, l)
              /\ NoLevelObtained(h, l) => ~SetIssued(h, l)
        /\ OnlyDelivery(h) =>
              \A n \in Bundles : NeverSet(h, ItemOf(n)) => level[ItemOf(n)] = level0[ItemOf(n)]

\* order 1003: the only level read for Kit2 failed, nothing was set and Kit2 is as before
C36_Witness ==
    \E h \in Handlers :
        /\ order[h] = Order3 /\ Completed(h) /\ OnlyDelivery(h)
        /\ NoLevelObtained(h, 2)
        /\ LineCalls(h, 2, "getInventoryLevel") # {}
        /\ LineCalls(h, 2, "setInventory") = {}
        /\ level[ItemOf(PKit2)] = level0[ItemOf(PKit2)]

\* C37: when the queries are answered, a started loadBundleConfig sets loading back to
\* false, a started handleSave saving and a started handleRefreshInventory
\* refreshingInventory, whatever the answers are.
C37_BusyFlagsClear ==
    /\ (selected # 0 /\ loading) ~> ~loading
    /\ saving ~> ~saving
    /\ refreshingInventory ~> ~refreshingInventory

\* a product without config: loaded, marked as a bundle and saved; no flag is left set
C37_Witness ==
    /\ selected = PPlain
    /\ events = 2
    /\ metafieldValue = Some(JSONStringify([isBundle |-> TRUE, products |-> <<>>]))
    /\ ~loading /\ ~saving /\ ~refreshingInventory
    /\ \A r \in Runs : runs[r] = NoRun

====
